---- MODULE Spec2Model ----
(***************************************************************************)
(* The mediator broker of src/mediator_server.py (class MediatorServer):   *)
(* its four registries, its message handlers and its disconnect cleanup.   *)
(*                                                                         *)
(* Spec        every handler runs to completion before the next one starts *)
(*             (the serialised broker).                                    *)
(* SpecThreads the same broker, with handle_help_request executed          *)
(*             statement by statement on the client's handler thread, so   *)
(*             that the heartbeat thread can run disconnect_client in      *)
(*             between (the code takes no lock).                           *)
(***************************************************************************)
EXTENDS Integers, Sequences, FiniteSets, TLC

(* ------------------------------ bounds --------------------------------- *)

\* Number of uuid4 draws (client ids, technician ids, session ids) in a run.
MaxUuid == 5

\* Size of the id space the draws of SpecUuid come from (the code's has 16^8
\* values; two are enough for a value to be drawn twice).
MaxIdSpace == 2

\* Identifiers drawn while two threads run disconnect_client.
MaxDisconnectDraws == 4

\* Frames of the screenshot stream: payload bytes are 0..MaxByte, a payload has
\* 1..MaxPayload bytes (a pickle is never empty), at most MaxFrames are sent.
MaxByte == 1
MaxPayload == 2
MaxFrames == 2

\* The command stream: at most MaxCommands commands are written, one recv
\* returns at most MaxRecv bytes (BUFFER_SIZE, scaled to pickles of 3 bytes).
MaxCommands == 3
MaxRecv == 6

\* Control connections technicians make to one client.
MaxConnections == 3

\* Callbacks of the technician program waiting in the Tk event queue.
MaxCallbacks == 2

\* Identifiers drawn before a control response is approved while the client
\* or the technician is being disconnected.
MaxApproveDraws == 3

\* Turns of the loop of send_screenshots.
MaxTurns == 7

\* Control requests forwarded to clients and not answered yet.
MaxForwarded == 2

\* Identifiers drawn while the client and technician programs exchange
\* signaling messages with the broker, and the messages in flight to one
\* receiver on one socket.
MaxSignalingDraws == 4
MaxInFlight == 1

\* Client and technician programs that connect to the broker while signaling
\* messages are followed.
MaxSignalingClients == 1
MaxSignalingTechnicians == 2

(* --------------------------- program values ---------------------------- *)

\* Python's None. Ids are 1..MaxUuid, all truthy, as non-empty strings are.
None == 0

Uuid == 1..MaxUuid

\* The (name, ip) a connection registers with: message['name'] and
\* client_address[0]. Every connection comes with its own name and address.
Identities(id) == { [name |-> <<"name", id>>, ip |-> <<"ip", id>>] }

VARIABLES
    clients,          \* self.clients: client_id -> [ip, name, help_requested, session_id]
    technicians,      \* self.technicians: tech_id -> [ip, name, assigned_client]
    help_requests,    \* self.help_requests: client_id -> [status]
    active_sessions,  \* self.active_sessions, in insertion order: <<[session_id, client_id, tech_id]>>
    uuid_draws,       \* how many uuid4 values have been drawn
    sent,             \* the socket sends attempted by the last handler, in order
    last,             \* the handler that ran last, with its arguments
    pc,               \* SpecThreads: client_id -> position of its handler thread
    technician_apps,  \* SpecDirect: tech_id -> the technician program's session state
    disconnecting,    \* SpecDisconnect: thread -> its position in disconnect_client
    direct,           \* the direct control connection of a client and a technician program
    storage,          \* the certificate files and the SSLManager instances at work on them
    racing,           \* SpecApprove: the threads in handle_control_response and disconnect_technician
    forwarded,        \* SpecRequests: the control requests forwarded to a client and not answered
    programs          \* SpecSignaling: the client and technician programs on their mediator sockets

vars == <<clients, technicians, help_requests, active_sessions, uuid_draws, sent, last, pc,
          technician_apps, disconnecting, direct, storage, racing, forwarded, programs>>

\* What the broker's handlers, run to completion, never touch.
further == <<storage, racing, forwarded, programs>>

elsewhere == <<disconnecting, direct, further>>

(* ------------------------------ helpers -------------------------------- *)

\* del d[k]
Del(d, k) == [x \in (DOMAIN d) \ {k} |-> d[x]]

\* d[k] = v
Put(d, k, v) == [x \in (DOMAIN d) \cup {k} |-> IF x = k THEN v ELSE d[x]]

Min(S) == CHOOSE x \in S : \A y \in S : x <= y

\* The broker state the handlers read and write, as one value.
State == [clients |-> clients, technicians |-> technicians,
          help_requests |-> help_requests, active_sessions |-> active_sessions,
          sent |-> <<>>]

\* session_id in self.active_sessions
HasSession(sessions, session_id) ==
    \E i \in 1..Len(sessions) : sessions[i].session_id = session_id

\* self.active_sessions[session_id]
SessionAt(sessions, session_id) ==
    sessions[CHOOSE i \in 1..Len(sessions) : sessions[i].session_id = session_id]

\* del self.active_sessions[session_id]
DelSession(sessions, session_id) ==
    SelectSeq(sessions, LAMBDA s : s.session_id # session_id)

\* One socket.send: the message, its receiver and whether the send succeeded.
Send(st, role, id, msg, ok) ==
    [st EXCEPT !.sent = Append(@, [role |-> role, to |-> id, msg |-> msg, ok |-> ok])]

(* --------------------------- disconnect cleanup ------------------------ *)

\* disconnect_technician: the first session (in dict order) of the technician
\* is removed, and only if its assigned client is still registered.
disconnect_technician(st, tech_id) ==
    IF tech_id \notin DOMAIN st.technicians THEN st
    ELSE
      LET assigned_client == st.technicians[tech_id].assigned_client
          found == { i \in 1..Len(st.active_sessions) :
                        st.active_sessions[i].tech_id = tech_id }
          st1 == IF assigned_client # None /\ assigned_client \in DOMAIN st.clients
                    /\ found # {}
                 THEN [st EXCEPT
                         !.active_sessions =
                             DelSession(@, st.active_sessions[Min(found)].session_id),
                         !.clients[assigned_client].session_id = None]
                 ELSE st
      IN [st1 EXCEPT !.technicians = Del(@, tech_id)]

\* broadcast_to_technicians over the snapshot `todo` of technician ids, in dict
\* order; a technician whose send fails (it is in `down`) is disconnected.
RECURSIVE broadcast_loop(_, _, _, _, _)
broadcast_loop(st, todo, message, exclude_tech, down) ==
    IF todo = {} THEN st
    ELSE
      LET tech_id == Min(todo)
          rest == todo \ {tech_id}
      IN IF exclude_tech # None /\ tech_id = exclude_tech
         THEN broadcast_loop(st, rest, message, exclude_tech, down)
         ELSE IF tech_id \in down
         THEN broadcast_loop(
                 disconnect_technician(Send(st, "technician", tech_id, message, FALSE),
                                       tech_id),
                 rest, message, exclude_tech, down)
         ELSE broadcast_loop(Send(st, "technician", tech_id, message, TRUE),
                             rest, message, exclude_tech, down)

\* Variant of broadcast_to_technicians that stops after the first technician.
broadcast_to_first_technician(st, message, exclude_tech, down) ==
    broadcast_loop(st,
                   IF st.technicians = <<>> THEN {} ELSE {Min(DOMAIN st.technicians)},
                   message, exclude_tech, down)

broadcast_to_technicians(st, message, exclude_tech, down) ==
    broadcast_loop(st, DOMAIN st.technicians, message, exclude_tech, down)

\* disconnect_client: the session is deleted before it is looked up again, so
\* the lookup yields {} and tech_id is None: no technician is touched.
disconnect_client(st, client_id, down) ==
    IF client_id \notin DOMAIN st.clients THEN st
    ELSE
      LET session_id == st.clients[client_id].session_id
          ended == session_id # None /\ HasSession(st.active_sessions, session_id)
          st1 == IF ended
                 THEN [st EXCEPT !.active_sessions = DelSession(@, session_id)]
                 ELSE st
          \* session = self.active_sessions.get(session_id, {}) after the del
          tech_id == IF ended /\ HasSession(st1.active_sessions, session_id)
                     THEN SessionAt(st1.active_sessions, session_id).tech_id
                     ELSE None
          st2 == IF ended /\ tech_id \in DOMAIN st1.technicians
                 THEN [st1 EXCEPT !.technicians[tech_id].assigned_client = None]
                 ELSE st1
          st3 == [st2 EXCEPT !.help_requests =
                                 IF client_id \in DOMAIN @ THEN Del(@, client_id) ELSE @,
                             !.clients = Del(@, client_id)]
      IN broadcast_to_technicians(
             st3, [type |-> "client_disconnected", client_id |-> client_id], None, down)

(* ------------------------------ handlers ------------------------------- *)

\* handle_help_request, lines 721-725: mark the client and store the request.
help_request_mark(st, client_id) ==
    [st EXCEPT !.clients[client_id].help_requested = TRUE,
               !.help_requests = Put(@, client_id, [status |-> "pending"])]

\* handle_help_request, lines 727-750: notify the technicians, confirm to the
\* client. downT / downC: the technician / client sockets whose send raises.
help_request_notify(st, client_id, downT, downC) ==
    LET client_info == st.clients[client_id]
        st1 == broadcast_to_technicians(
                   st,
                   [type |-> "new_help_request", client_id |-> client_id,
                    name |-> client_info.name, ip |-> client_info.ip],
                   None, downT)
    IN Send(st1, "client", client_id, [type |-> "help_confirmed"],
            client_id \notin downC)

\* handle_help_request
handle_help_request(st, client_id, downT, downC) ==
    IF client_id \notin DOMAIN st.clients THEN st
    ELSE help_request_notify(help_request_mark(st, client_id), client_id, downT, downC)

\* Variant of handle_cancel_help that keeps the stored help request.
handle_cancel_help_keeps_request(st, client_id, downT) ==
    IF client_id \notin DOMAIN st.clients THEN st
    ELSE broadcast_to_technicians(
             [st EXCEPT !.clients[client_id].help_requested = FALSE],
             [type |-> "help_cancelled", client_id |-> client_id], None, downT)

\* handle_cancel_help
handle_cancel_help(st, client_id, downT) ==
    IF client_id \notin DOMAIN st.clients THEN st
    ELSE
      LET st1 == [st EXCEPT !.clients[client_id].help_requested = FALSE,
                            !.help_requests =
                                IF client_id \in DOMAIN @ THEN Del(@, client_id) ELSE @]
      IN broadcast_to_technicians(
             st1, [type |-> "help_cancelled", client_id |-> client_id], None, downT)

\* handle_control_request
handle_control_request(st, tech_id, client_id, downC) ==
    IF client_id \notin DOMAIN st.clients \/ tech_id \notin DOMAIN st.technicians
    THEN st
    ELSE
      LET tech_info == st.technicians[tech_id]
      IN Send(st, "client", client_id,
              [type |-> "control_request", technician_name |-> tech_info.name,
               technician_ip |-> tech_info.ip, tech_id |-> tech_id],
              client_id \notin downC)

\* handle_control_response, lines 808-824: the session is stored under the
\* drawn session_id and the client and the technician are updated.
control_response_approve(st, client_id, tech_id, session_id) ==
    LET session == [session_id |-> session_id, client_id |-> client_id,
                    tech_id |-> tech_id]
    IN [st EXCEPT
          !.active_sessions =
              IF HasSession(@, session_id)
              THEN [i \in 1..Len(@) |->
                       IF @[i].session_id = session_id THEN session ELSE @[i]]
              ELSE Append(@, session),
          !.clients[client_id].session_id = session_id,
          !.clients[client_id].help_requested = FALSE,
          !.technicians[tech_id].assigned_client = client_id,
          !.help_requests = IF client_id \in DOMAIN @ THEN Del(@, client_id) ELSE @]

\* handle_control_response, lines 829-843: the response for the technician.
control_response_message(client_info, client_id, approved, session_id) ==
    IF approved
    THEN [type |-> "control_approved", client_id |-> client_id,
          client_ip |-> client_info.ip, client_name |-> client_info.name,
          session_id |-> session_id]
    ELSE [type |-> "control_denied", client_id |-> client_id,
          client_name |-> client_info.name]

\* Variant of control_response_notify whose broadcast excludes nobody, so the
\* approved technician is told too.
control_response_notify_all(st, client_id, tech_id, approved, downT) ==
    IF approved
    THEN broadcast_to_technicians(
             st, [type |-> "client_unavailable", client_id |-> client_id],
             None, downT)
    ELSE st

\* Variant of control_response_notify without the `if approved` guard.
control_response_notify_always(st, client_id, tech_id, approved, downT) ==
    broadcast_to_technicians(
        st, [type |-> "client_unavailable", client_id |-> client_id],
        tech_id, downT)

\* handle_control_response, lines 850-856: on approval the other technicians
\* are told that the client is no longer available.
control_response_notify(st, client_id, tech_id, approved, downT) ==
    IF approved
    THEN broadcast_to_technicians(
             st, [type |-> "client_unavailable", client_id |-> client_id],
             tech_id, downT)
    ELSE st

\* Variant of handle_control_response that answers a technician that is not
\* registered instead of returning.
handle_control_response_unchecked(st, client_id, tech_id, approved, session_id, downT) ==
    IF client_id \notin DOMAIN st.clients THEN st
    ELSE IF tech_id \notin DOMAIN st.technicians
    THEN Send(st, "technician", tech_id,
              control_response_message(st.clients[client_id], client_id, FALSE,
                                       session_id),
              FALSE)
    ELSE control_response_notify(
             Send(IF approved
                  THEN control_response_approve(st, client_id, tech_id, session_id)
                  ELSE st,
                  "technician", tech_id,
                  control_response_message(st.clients[client_id], client_id, approved,
                                           session_id),
                  tech_id \notin downT),
             client_id, tech_id, approved, downT)

\* handle_control_response. session_id is the uuid drawn on approval.
handle_control_response(st, client_id, tech_id, approved, session_id, downT) ==
    IF tech_id \notin DOMAIN st.technicians \/ client_id \notin DOMAIN st.clients
    THEN st
    ELSE
      LET client_info == st.clients[client_id]
          st1 == IF approved
                 THEN control_response_approve(st, client_id, tech_id, session_id)
                 ELSE st
          st2 == Send(st1, "technician", tech_id,
                      control_response_message(client_info, client_id, approved,
                                               session_id),
                      tech_id \notin downT)
      IN control_response_notify(st2, client_id, tech_id, approved, downT)

\* Variant of handle_end_session without the membership test of lines 862-863.
handle_end_session_unguarded(st, tech_id, session_id) ==
    LET st1 == [st EXCEPT !.active_sessions = DelSession(@, session_id)]
    IN IF tech_id \in DOMAIN st1.technicians
       THEN [st1 EXCEPT !.technicians[tech_id].assigned_client = None]
       ELSE st1

\* handle_end_session: tech_id is the technician the message came from.
handle_end_session(st, tech_id, session_id) ==
    IF ~HasSession(st.active_sessions, session_id) THEN st
    ELSE
      LET client_id == SessionAt(st.active_sessions, session_id).client_id
          st1 == [st EXCEPT !.active_sessions = DelSession(@, session_id)]
          st2 == IF client_id \in DOMAIN st1.clients
                 THEN [st1 EXCEPT !.clients[client_id].session_id = None]
                 ELSE st1
      IN IF tech_id \in DOMAIN st2.technicians
         THEN [st2 EXCEPT !.technicians[tech_id].assigned_client = None]
         ELSE st2

\* handle_client_connection: store the client, send welcome; a failed welcome
\* disconnects it again.
handle_client_connection(st, client_id, identity, ok, downT) ==
    LET st1 == [st EXCEPT !.clients =
                   Put(@, client_id, [ip |-> identity.ip, name |-> identity.name,
                                      help_requested |-> FALSE, session_id |-> None])]
        st2 == Send(st1, "client", client_id,
                    [type |-> "welcome", client_id |-> client_id], ok)
    IN IF ok THEN st2 ELSE disconnect_client(st2, client_id, downT)

\* The help_list of the technician's welcome: the clients with
\* help_requested and no session_id, in dict order.
RECURSIVE help_list(_, _)
help_list(cl, todo) ==
    IF todo = {} THEN <<>>
    ELSE
      LET client_id == Min(todo)
          tail == help_list(cl, todo \ {client_id})
      IN IF cl[client_id].help_requested /\ cl[client_id].session_id = None
         THEN <<[client_id |-> client_id, name |-> cl[client_id].name,
                 ip |-> cl[client_id].ip]>> \o tail
         ELSE tail

\* handle_technician_connection
handle_technician_connection(st, tech_id, identity, ok) ==
    LET st1 == [st EXCEPT !.technicians =
                   Put(@, tech_id, [ip |-> identity.ip, name |-> identity.name,
                                    assigned_client |-> None])]
        st2 == Send(st1, "technician", tech_id,
                    [type |-> "welcome", technician_id |-> tech_id,
                     help_requests |-> help_list(st1.clients, DOMAIN st1.clients)],
                    ok)
    IN IF ok THEN st2 ELSE disconnect_technician(st2, tech_id)

(* ------------------------------- actions ------------------------------- *)

Idle == [id \in Uuid |-> "idle"]

\* The two threads that call disconnect_client for a client: its handler
\* thread (handle_client_messages, finally) and the heartbeat thread.
DisconnectThreads == {"handler", "heartbeat"}

\* No thread is inside disconnect_client. outcome is how its last call ended.
NotDisconnecting ==
    [thread \in DisconnectThreads |->
        [at |-> "idle", client_id |-> None, session_id |-> None, outcome |-> "none"]]

\* No control connection between the client and the technician program.
NoConnection == [state |-> "none"]

\* The working directory before any SSLManager has been used.
NoStorage == [state |-> "none"]

\* No thread is inside handle_control_response or disconnect_technician.
NotRacing ==
    [approver |-> [at |-> "idle", client_id |-> None, tech_id |-> None,
                   session_id |-> None, outcome |-> "none"],
     technician |-> [at |-> "idle", tech_id |-> None, assigned_client |-> None,
                     session_id |-> None, outcome |-> "none"]]

\* The client and technician programs before they connect to the broker:
\* help_requested is False (client __init__), help_requests is empty
\* (technician __init__); inbox / outbox are the messages in flight on the
\* program's mediator socket, to it and from it; closed, that the program has
\* closed the socket. The client's two buttons are created disabled, and its
\* technician_socket is set while a control connection is open.
NoPrograms ==
    [client |-> [id \in Uuid |-> [mediator_connected |-> FALSE, help_requested |-> FALSE,
                                  help_button |-> "disabled",
                                  cancel_help_button |-> "disabled",
                                  technician_socket |-> FALSE,
                                  inbox |-> <<>>, outbox |-> <<>>]],
     technician |-> [id \in Uuid |-> [mediator_connected |-> FALSE, closed |-> FALSE,
                                      help_requests |-> <<>>,
                                      inbox |-> <<>>, outbox |-> <<>>]]]

\* No control request has been forwarded: for every (tech_id, client_id), the
\* number of control_request messages sent to the client and not answered.
NoneForwarded == [request \in Uuid \X Uuid |-> 0]

\* Init of what lies outside the broker and the direct connection.
NothingFurther ==
    /\ storage = NoStorage /\ racing = NotRacing
    /\ forwarded = NoneForwarded /\ programs = NoPrograms

\* RemoteControlTechnicianWithMediator.__init__ as far as sessions go: no
\* session id, no control connection. inbox / outbox are the messages in
\* flight on its mediator socket, connecting the sessions whose
\* connect_to_client thread is running, control_session the session the open
\* control connection was made for.
NoSession ==
    [id \in Uuid |-> [inbox |-> <<>>, outbox |-> <<>>, current_session_id |-> None,
                      connecting |-> {}, control_connected |-> FALSE,
                      control_session |-> None]]

Init ==
    /\ clients = <<>>
    /\ technicians = <<>>
    /\ help_requests = <<>>
    /\ active_sessions = <<>>
    /\ uuid_draws = 0
    /\ sent = <<>>
    /\ last = [op |-> "start", id |-> None, arg |-> None]
    /\ pc = Idle
    /\ technician_apps = NoSession
    /\ disconnecting = NotDisconnecting
    /\ direct = NoConnection
    /\ NothingFurther

\* The registries and the sends of the handler's result become the next state.
Commit(st) ==
    /\ clients' = st.clients
    /\ technicians' = st.technicians
    /\ help_requests' = st.help_requests
    /\ active_sessions' = st.active_sessions
    /\ sent' = st.sent

\* What ran: the handler, the peer it ran for and the id its message named.
Ran(op, id, arg) == last' = [op |-> op, id |-> id, arg |-> arg]

\* str(uuid.uuid4())[:8]: the next value, different from every earlier one.
uuid4 == uuid_draws + 1

\* The ids a peer can name in a message: those drawn so far.
Drawn == 1..uuid_draws

\* handle_connection with a client_connect message
ClientConnect ==
    /\ uuid_draws < MaxUuid
    /\ \E identity \in Identities(uuid4), ok \in BOOLEAN :
       \E downT \in (IF ok THEN {{}} ELSE SUBSET DOMAIN technicians) :
          /\ Commit(handle_client_connection(State, uuid4, identity, ok, downT))
          /\ Ran("client_connect", uuid4, None)
    /\ uuid_draws' = uuid_draws + 1
    /\ UNCHANGED <<pc, technician_apps, elsewhere>>

\* handle_connection with a technician_connect message
TechnicianConnect ==
    /\ uuid_draws < MaxUuid
    /\ \E identity \in Identities(uuid4), ok \in BOOLEAN :
          /\ Commit(handle_technician_connection(State, uuid4, identity, ok))
          /\ Ran("technician_connect", uuid4, None)
    /\ uuid_draws' = uuid_draws + 1
    /\ UNCHANGED <<pc, technician_apps, elsewhere>>

\* handle_client_messages receives help_request from client_id
HelpRequest(client_id) ==
    /\ client_id \in DOMAIN clients
    /\ pc[client_id] = "idle"
    /\ \E downT \in SUBSET DOMAIN technicians, downC \in SUBSET {client_id} :
          Commit(handle_help_request(State, client_id, downT, downC))
    /\ Ran("help_request", client_id, None)
    /\ UNCHANGED <<uuid_draws, pc, technician_apps, elsewhere>>

\* handle_client_messages receives cancel_help from client_id
CancelHelp(client_id) ==
    /\ client_id \in DOMAIN clients
    /\ pc[client_id] = "idle"
    /\ \E downT \in SUBSET DOMAIN technicians :
          Commit(handle_cancel_help(State, client_id, downT))
    /\ Ran("cancel_help", client_id, None)
    /\ UNCHANGED <<uuid_draws, pc, technician_apps, elsewhere>>

\* handle_technician_messages receives request_control{client_id} from tech_id
RequestControl(tech_id, client_id) ==
    /\ tech_id \in DOMAIN technicians
    /\ \E downC \in SUBSET ({client_id} \cap DOMAIN clients) :
          Commit(handle_control_request(State, tech_id, client_id, downC))
    /\ Ran("request_control", tech_id, client_id)
    /\ UNCHANGED <<uuid_draws, pc, technician_apps, elsewhere>>

\* handle_client_messages receives control_response{tech_id, approved}
ControlResponse(client_id, tech_id, approved) ==
    /\ client_id \in DOMAIN clients
    /\ pc[client_id] = "idle"
    /\ LET known == tech_id \in DOMAIN technicians
           draws == approved /\ known
       IN /\ draws => uuid_draws < MaxUuid
          /\ \E downT \in (IF draws THEN SUBSET DOMAIN technicians
                           ELSE SUBSET ({tech_id} \cap DOMAIN technicians)) :
                Commit(handle_control_response(State, client_id, tech_id, approved,
                                               uuid4, downT))
          /\ uuid_draws' = IF draws THEN uuid_draws + 1 ELSE uuid_draws
    /\ Ran("control_response", client_id, tech_id)
    /\ UNCHANGED <<pc, technician_apps, elsewhere>>

\* handle_technician_messages receives end_session{session_id} from tech_id
EndSession(tech_id, session_id) ==
    /\ tech_id \in DOMAIN technicians
    /\ Commit(handle_end_session(State, tech_id, session_id))
    /\ Ran("end_session", tech_id, session_id)
    /\ UNCHANGED <<uuid_draws, pc, technician_apps, elsewhere>>

\* handle_client_messages receives end_session{session_id} from client_id:
\* process_client_message has no branch for it and only logs the type.
ClientEndSession(client_id, session_id) ==
    /\ client_id \in DOMAIN clients
    /\ pc[client_id] = "idle"
    /\ Commit(State)
    /\ Ran("client_end_session", client_id, session_id)
    /\ UNCHANGED <<uuid_draws, pc, technician_apps, elsewhere>>

\* handle_client_messages leaves its loop (recv fails or returns nothing)
ClientHandlerExit(client_id) ==
    /\ client_id \in DOMAIN clients
    /\ pc[client_id] = "idle"
    /\ \E downT \in SUBSET DOMAIN technicians :
          Commit(disconnect_client(State, client_id, downT))
    /\ Ran("client_exit", client_id, None)
    /\ UNCHANGED <<uuid_draws, pc, technician_apps, elsewhere>>

\* handle_technician_messages leaves its loop
TechnicianHandlerExit(tech_id) ==
    /\ tech_id \in DOMAIN technicians
    /\ Commit(disconnect_technician(State, tech_id))
    /\ Ran("technician_exit", tech_id, None)
    /\ UNCHANGED <<uuid_draws, pc, technician_apps, elsewhere>>

\* heartbeat_checker, one iteration of its client loop
HeartbeatClient(client_id) ==
    /\ client_id \in DOMAIN clients
    /\ \E ok \in BOOLEAN :
       \E downT \in (IF ok THEN {{}} ELSE SUBSET DOMAIN technicians) :
          /\ LET st1 == Send(State, "client", client_id, [type |-> "heartbeat"], ok)
             IN Commit(IF ok THEN st1 ELSE disconnect_client(st1, client_id, downT))
          /\ Ran("heartbeat_client", client_id, None)
    /\ UNCHANGED <<uuid_draws, pc, technician_apps, elsewhere>>

\* heartbeat_checker, one iteration of its technician loop
HeartbeatTechnician(tech_id) ==
    /\ tech_id \in DOMAIN technicians
    /\ \E ok \in BOOLEAN :
          /\ LET st1 == Send(State, "technician", tech_id, [type |-> "heartbeat"], ok)
             IN Commit(IF ok THEN st1 ELSE disconnect_technician(st1, tech_id))
          /\ Ran("heartbeat_technician", tech_id, None)
    /\ UNCHANGED <<uuid_draws, pc, technician_apps, elsewhere>>

\* Every handler but handle_help_request, each run to completion.
Handlers ==
    \/ ClientConnect
    \/ TechnicianConnect
    \/ \E client_id \in Drawn : CancelHelp(client_id)
    \/ \E tech_id \in Drawn, client_id \in Drawn : RequestControl(tech_id, client_id)
    \/ \E client_id \in Drawn, tech_id \in Drawn, approved \in BOOLEAN :
          ControlResponse(client_id, tech_id, approved)
    \/ \E tech_id \in Drawn, session_id \in Drawn : EndSession(tech_id, session_id)
    \/ \E client_id \in Drawn, session_id \in Drawn : ClientEndSession(client_id, session_id)
    \/ \E client_id \in Drawn : ClientHandlerExit(client_id)
    \/ \E tech_id \in Drawn : TechnicianHandlerExit(tech_id)
    \/ \E client_id \in Drawn : HeartbeatClient(client_id)
    \/ \E tech_id \in Drawn : HeartbeatTechnician(tech_id)

Next ==
    \/ Handlers
    \/ \E client_id \in Drawn : HelpRequest(client_id)

Spec == Init /\ [][Next]_vars

(* ----------- handle_help_request on its thread, statement by statement -- *)

\* Lines 717-721: the membership test and the help_requested assignment.
HelpRequestFlag(client_id) ==
    /\ client_id \in DOMAIN clients
    /\ pc[client_id] = "idle"
    /\ clients' = [clients EXCEPT ![client_id].help_requested = TRUE]
    /\ pc' = [pc EXCEPT ![client_id] = "L722"]
    /\ sent' = <<>>
    /\ Ran("help_request_721", client_id, None)
    /\ UNCHANGED <<technicians, help_requests, active_sessions, uuid_draws, technician_apps, elsewhere>>

\* Line 722: self.help_requests[client_id] = {...}; a dict store, which needs
\* no registered client.
HelpRequestStore(client_id) ==
    /\ pc[client_id] = "L722"
    /\ help_requests' = Put(help_requests, client_id, [status |-> "pending"])
    /\ pc' = [pc EXCEPT ![client_id] = "L727"]
    /\ sent' = <<>>
    /\ Ran("help_request_722", client_id, None)
    /\ UNCHANGED <<clients, technicians, active_sessions, uuid_draws, technician_apps, elsewhere>>

\* Lines 727-750. self.clients[client_id] raises KeyError when the client is
\* gone: handle_client_messages catches it and calls disconnect_client, which
\* returns at once for a client that is not registered.
HelpRequestNotify(client_id) ==
    /\ pc[client_id] = "L727"
    /\ IF client_id \in DOMAIN clients
       THEN \E downT \in SUBSET DOMAIN technicians, downC \in SUBSET {client_id} :
               Commit(help_request_notify(State, client_id, downT, downC))
       ELSE Commit(disconnect_client(State, client_id, {}))
    /\ pc' = [pc EXCEPT ![client_id] = "idle"]
    /\ Ran("help_request_727", client_id, None)
    /\ UNCHANGED <<uuid_draws, technician_apps, elsewhere>>

\* No handler thread is inside handle_help_request.
Quiescent == \A id \in Uuid : pc[id] = "idle"

\* The threads that touch the help-request registries: registration, the
\* client's handler thread (step by step in handle_help_request) and the
\* heartbeat thread. One handler thread at a time is taken through
\* handle_help_request; the other threads run between its statements.
NextThreads ==
    \/ ClientConnect
    \/ TechnicianConnect
    \/ \E client_id \in Drawn : Quiescent /\ HelpRequestFlag(client_id)
    \/ \E client_id \in Drawn : HelpRequestStore(client_id)
    \/ \E client_id \in Drawn : HelpRequestNotify(client_id)
    \/ \E client_id \in Drawn : CancelHelp(client_id)
    \/ \E client_id \in Drawn : ClientHandlerExit(client_id)
    \/ \E client_id \in Drawn : HeartbeatClient(client_id)
    \/ \E tech_id \in Drawn : HeartbeatTechnician(tech_id)

SpecThreads == Init /\ [][NextThreads]_vars

(* ------- the technician program and its direct control connection ------ *)

\* The technician program's steps leave the broker's registries alone.
BrokerUnchanged ==
    /\ sent' = <<>>
    /\ UNCHANGED <<clients, technicians, help_requests, active_sessions, uuid_draws, pc,
                   elsewhere>>

\* handle_control_response approving tech_id, every send succeeding: the
\* control_approved it sends is then in flight to the technician program. The
\* other broker messages do not touch the program's session state
\* (process_mediator_message) and are not queued.
ApproveAndNotify(client_id, tech_id) ==
    /\ client_id \in DOMAIN clients
    /\ tech_id \in DOMAIN technicians
    /\ uuid_draws < MaxUuid
    /\ LET st == handle_control_response(State, client_id, tech_id, TRUE, uuid4, {})
       IN /\ Commit(st)
          /\ technician_apps' =
                [technician_apps EXCEPT ![tech_id].inbox = Append(@, st.sent[1].msg)]
    /\ uuid_draws' = uuid_draws + 1
    /\ Ran("control_response", client_id, tech_id)
    /\ UNCHANGED <<pc, elsewhere>>

\* process_mediator_message -> handle_control_approved: the session id is
\* kept and a connect_to_client thread is started.
HandleControlApproved(tech_id) ==
    /\ technician_apps[tech_id].inbox # <<>>
    /\ LET message == Head(technician_apps[tech_id].inbox)
       IN /\ technician_apps' =
                [technician_apps EXCEPT
                   ![tech_id].inbox = Tail(@),
                   ![tech_id].current_session_id = message.session_id,
                   ![tech_id].connecting = @ \cup {message.session_id}]
          /\ Ran("control_approved", tech_id, message.session_id)
    /\ BrokerUnchanged

\* connect_to_client, try branch: the control connection is open.
ConnectToClient(tech_id, session_id) ==
    /\ session_id \in technician_apps[tech_id].connecting
    /\ technician_apps' =
          [technician_apps EXCEPT ![tech_id].connecting = @ \ {session_id},
                                  ![tech_id].control_connected = TRUE,
                                  ![tech_id].control_session = session_id]
    /\ Ran("connect_to_client", tech_id, session_id)
    /\ BrokerUnchanged

\* connect_to_client, except branch: the failure is logged and shown, nothing
\* else happens.
ConnectFailed(tech_id, session_id) ==
    /\ session_id \in technician_apps[tech_id].connecting
    /\ technician_apps' =
          [technician_apps EXCEPT ![tech_id].connecting = @ \ {session_id}]
    /\ Ran("connect_failed", tech_id, session_id)
    /\ BrokerUnchanged

\* disconnect_from_client on an open control connection, whatever ended it
\* (_receive_screenshots, _ping_thread, send_command, end_session; the client
\* closing its end shows up as a failed receive): end_session for
\* current_session_id goes to the broker while the mediator connection is up.
DisconnectFromClient(tech_id) ==
    /\ technician_apps[tech_id].control_connected
    /\ LET app == technician_apps[tech_id]
           notify == tech_id \in DOMAIN technicians /\ app.current_session_id # None
       IN /\ technician_apps' =
                [technician_apps EXCEPT
                   ![tech_id].control_connected = FALSE,
                   ![tech_id].control_session = None,
                   ![tech_id].outbox =
                       IF notify
                       THEN Append(@, [type |-> "end_session",
                                       session_id |-> app.current_session_id])
                       ELSE @,
                   ![tech_id].current_session_id = None]
          /\ Ran("disconnect_from_client", tech_id, app.control_session)
    /\ BrokerUnchanged

\* handle_technician_messages receives the end_session the program sent.
DeliverEndSession(tech_id) ==
    /\ tech_id \in DOMAIN technicians
    /\ technician_apps[tech_id].outbox # <<>>
    /\ LET message == Head(technician_apps[tech_id].outbox)
       IN /\ Commit(handle_end_session(State, tech_id, message.session_id))
          /\ Ran("end_session", tech_id, message.session_id)
    /\ technician_apps' = [technician_apps EXCEPT ![tech_id].outbox = Tail(@)]
    /\ UNCHANGED <<uuid_draws, pc, elsewhere>>

\* A connect_to_client thread ends, one way or the other.
ConnectEnds ==
    \E tech_id \in Drawn, session_id \in Drawn :
        ConnectToClient(tech_id, session_id) \/ ConnectFailed(tech_id, session_id)

NextDirect ==
    \/ ClientConnect
    \/ TechnicianConnect
    \/ \E client_id \in Drawn, tech_id \in Drawn : ApproveAndNotify(client_id, tech_id)
    \/ \E tech_id \in Drawn : HandleControlApproved(tech_id)
    \/ \E tech_id \in Drawn, session_id \in Drawn : ConnectToClient(tech_id, session_id)
    \/ \E tech_id \in Drawn, session_id \in Drawn : ConnectFailed(tech_id, session_id)
    \/ \E tech_id \in Drawn : DisconnectFromClient(tech_id)
    \/ \E tech_id \in Drawn : DeliverEndSession(tech_id)

\* The program's threads and the broker's handler thread keep running: a
\* message in flight is handled and a connection attempt ends.
SpecDirect ==
    /\ Init /\ [][NextDirect]_vars
    /\ WF_vars(\E tech_id \in Drawn : HandleControlApproved(tech_id))
    /\ WF_vars(ConnectEnds)
    /\ WF_vars(\E tech_id \in Drawn : DeliverEndSession(tech_id))

(* ----------------- registration with uuid4 as it is drawn --------------- *)

\* str(uuid.uuid4())[:8] is eight random hex digits: any value of the id space
\* can come out, whatever is registered. IdSpace stands for the id space and
\* uuid_draws counts the connections, each with its own name and address.
IdSpace == 1..MaxIdSpace

\* handle_connection with a client_connect message; client_id is the draw.
RegisterClient(client_id) ==
    /\ uuid_draws < MaxUuid
    /\ \E identity \in Identities(uuid4), ok \in BOOLEAN :
       \E downT \in (IF ok THEN {{}} ELSE SUBSET DOMAIN technicians) :
          /\ Commit(handle_client_connection(State, client_id, identity, ok, downT))
          /\ Ran("client_connect", client_id, None)
    /\ uuid_draws' = uuid_draws + 1
    /\ UNCHANGED <<pc, technician_apps, elsewhere>>

\* handle_connection with a technician_connect message; tech_id is the draw.
RegisterTechnician(tech_id) ==
    /\ uuid_draws < MaxUuid
    /\ \E identity \in Identities(uuid4), ok \in BOOLEAN :
          /\ Commit(handle_technician_connection(State, tech_id, identity, ok))
          /\ Ran("technician_connect", tech_id, None)
    /\ uuid_draws' = uuid_draws + 1
    /\ UNCHANGED <<pc, technician_apps, elsewhere>>

NextUuid ==
    \/ \E client_id \in IdSpace : RegisterClient(client_id)
    \/ \E tech_id \in IdSpace : RegisterTechnician(tech_id)
    \/ \E client_id \in IdSpace : HelpRequest(client_id)
    \/ \E client_id \in IdSpace : ClientHandlerExit(client_id)
    \/ \E tech_id \in IdSpace : TechnicianHandlerExit(tech_id)

SpecUuid == Init /\ [][NextUuid]_vars

(* ------------- first messages and messages of unknown type -------------- *)

\* client_socket.close() on a socket that was never registered.
Close(st) ==
    [st EXCEPT !.sent = Append(@, [role |-> "unregistered", to |-> None,
                                   msg |-> [type |-> "close"], ok |-> TRUE])]

\* What the first recv of handle_connection can yield besides the two
\* connect messages: nothing, bytes that are no JSON, JSON without 'type',
\* JSON with another type.
BadFirstMessages == {"empty", "malformed", "no_type", "unknown_type"}

\* Variant of handle_connection that returns on everything but the connect
\* messages without closing the socket.
handle_connection_leaves_open(st, first, id, identity, ok, downT) ==
    IF first = "client_connect"
    THEN handle_client_connection(st, id, identity, ok, downT)
    ELSE IF first = "technician_connect"
    THEN handle_technician_connection(st, id, identity, ok)
    ELSE st

\* handle_connection: no data returns (lines 512-513); json.loads or
\* message['type'] raising ends in the except branch, which closes the socket
\* (524-529); another type closes it too (520-522).
handle_connection(st, first, id, identity, ok, downT) ==
    IF first = "empty" THEN st
    ELSE IF first \in {"malformed", "no_type"} THEN Close(st)
    ELSE IF first = "client_connect"
    THEN handle_client_connection(st, id, identity, ok, downT)
    ELSE IF first = "technician_connect"
    THEN handle_technician_connection(st, id, identity, ok)
    ELSE Close(st)

\* A connection whose first message is no connect message.
BadConnection(first) ==
    /\ \E identity \in Identities(uuid4) :
          Commit(handle_connection(State, first, None, identity, TRUE, {}))
    /\ Ran(first, None, None)
    /\ UNCHANGED <<uuid_draws, pc, technician_apps, elsewhere>>

\* Variant of client_unknown_message that drops the sender.
client_unknown_message_disconnects(st, client_id) ==
    disconnect_client(st, client_id, {})

\* process_client_message, else branch (lines 696-697): the type is logged and
\* handle_client_messages goes on with its loop.
client_unknown_message(st, client_id) == st

\* process_technician_message, else branch (lines 712-713).
technician_unknown_message(st, tech_id) == st

\* handle_client_messages receives a message of a type it has no branch for.
ClientUnknownMessage(client_id) ==
    /\ client_id \in DOMAIN clients
    /\ Commit(client_unknown_message(State, client_id))
    /\ Ran("client_unknown", client_id, None)
    /\ UNCHANGED <<uuid_draws, pc, technician_apps, elsewhere>>

\* handle_technician_messages receives a message of a type it has no branch for.
TechnicianUnknownMessage(tech_id) ==
    /\ tech_id \in DOMAIN technicians
    /\ Commit(technician_unknown_message(State, tech_id))
    /\ Ran("technician_unknown", tech_id, None)
    /\ UNCHANGED <<uuid_draws, pc, technician_apps, elsewhere>>

NextErrors ==
    \/ ClientConnect
    \/ TechnicianConnect
    \/ \E client_id \in Drawn : HelpRequest(client_id)
    \/ \E client_id \in Drawn, tech_id \in Drawn, approved \in BOOLEAN :
          ControlResponse(client_id, tech_id, approved)
    \/ \E first \in BadFirstMessages : BadConnection(first)
    \/ \E client_id \in Drawn : ClientUnknownMessage(client_id)
    \/ \E client_id \in Drawn, session_id \in Drawn : ClientEndSession(client_id, session_id)
    \/ \E tech_id \in Drawn : TechnicianUnknownMessage(tech_id)

SpecErrors == Init /\ [][NextErrors]_vars

(* ------- disconnect_client on two threads, statement by statement ------- *)

\* No thread is inside disconnect_client.
NoDisconnect == \A thread \in DisconnectThreads : disconnecting[thread].at = "idle"

\* The thread goes on at statement `at`.
Goto(thread, at) == disconnecting' = [disconnecting EXCEPT ![thread].at = at]

\* The call of the thread ends: "returned" at line 894, "cleaned" after the
\* broadcast, "failed" when a del or a lookup raises KeyError.
Finish(thread, outcome) ==
    disconnecting' = [disconnecting EXCEPT ![thread].at = "idle",
                                           ![thread].outcome = outcome]

\* The registries are left as they are by this statement.
RegistriesUnchanged ==
    UNCHANGED <<clients, technicians, help_requests, active_sessions>>

\* handle_client_messages reaches its finally clause (thread = "handler"), or
\* a heartbeat send fails in heartbeat_checker (thread = "heartbeat"): the
\* thread calls disconnect_client for a client it has just seen registered.
DisconnectCall(thread, client_id) ==
    /\ disconnecting[thread].at = "idle"
    /\ client_id \in DOMAIN clients
    /\ disconnecting' =
          [disconnecting EXCEPT
             ![thread] = [at |-> "L893", client_id |-> client_id,
                          session_id |-> None, outcome |-> "running"]]
    /\ RegistriesUnchanged
    /\ sent' = <<>>

\* One statement of disconnect_client on the thread.
DisconnectStatement(thread) ==
    LET at == disconnecting[thread].at
        client_id == disconnecting[thread].client_id
        session_id == disconnecting[thread].session_id
    IN /\ at # "idle"
       /\ CASE at = "L893" ->   \* if client_id not in self.clients: return
                 /\ IF client_id \in DOMAIN clients
                    THEN Goto(thread, "L896") ELSE Finish(thread, "returned")
                 /\ RegistriesUnchanged /\ sent' = <<>>
            [] at = "L896" ->   \* client_info = self.clients[client_id]; session_id
                 /\ IF client_id \in DOMAIN clients
                    THEN disconnecting' =
                            [disconnecting EXCEPT
                               ![thread].at = "L900",
                               ![thread].session_id = clients[client_id].session_id]
                    ELSE Finish(thread, "failed")
                 /\ RegistriesUnchanged /\ sent' = <<>>
            [] at = "L900" ->   \* if session_id and session_id in self.active_sessions
                 /\ IF session_id # None /\ HasSession(active_sessions, session_id)
                    THEN Goto(thread, "L901") ELSE Goto(thread, "L910")
                 /\ RegistriesUnchanged /\ sent' = <<>>
            [] at = "L901" ->   \* del self.active_sessions[session_id]; 904-907 find nothing
                 /\ IF HasSession(active_sessions, session_id)
                    THEN /\ active_sessions' = DelSession(active_sessions, session_id)
                         /\ Goto(thread, "L910")
                    ELSE /\ UNCHANGED active_sessions
                         /\ Finish(thread, "failed")
                 /\ UNCHANGED <<clients, technicians, help_requests>> /\ sent' = <<>>
            [] at = "L910" ->   \* if client_id in self.help_requests
                 /\ IF client_id \in DOMAIN help_requests
                    THEN Goto(thread, "L911") ELSE Goto(thread, "L918")
                 /\ RegistriesUnchanged /\ sent' = <<>>
            [] at = "L911" ->   \* del self.help_requests[client_id]
                 /\ IF client_id \in DOMAIN help_requests
                    THEN /\ help_requests' = Del(help_requests, client_id)
                         /\ Goto(thread, "L918")
                    ELSE /\ UNCHANGED help_requests
                         /\ Finish(thread, "failed")
                 /\ UNCHANGED <<clients, technicians, active_sessions>> /\ sent' = <<>>
            [] at = "L918" ->   \* del self.clients[client_id]
                 /\ IF client_id \in DOMAIN clients
                    THEN /\ clients' = Del(clients, client_id)
                         /\ Goto(thread, "L929")
                    ELSE /\ UNCHANGED clients
                         /\ Finish(thread, "failed")
                 /\ UNCHANGED <<technicians, help_requests, active_sessions>>
                 /\ sent' = <<>>
            [] at = "L929" ->   \* self.broadcast_to_technicians(disconnect_notification)
                 /\ Commit(broadcast_to_technicians(
                               State,
                               [type |-> "client_disconnected", client_id |-> client_id],
                               None, {}))
                 /\ Finish(thread, "cleaned")

\* A statement of either thread; the other threads are not running.
DisconnectStep ==
    /\ \E thread \in DisconnectThreads, client_id \in Drawn :
          DisconnectCall(thread, client_id) \/ DisconnectStatement(thread)
    /\ last' = [op |-> "disconnect_client", id |-> None, arg |-> None]
    /\ UNCHANGED <<uuid_draws, pc, technician_apps, direct, further>>

\* The registries are built while no thread is inside disconnect_client, from
\* at most MaxDisconnectDraws identifiers.
Building == NoDisconnect /\ uuid_draws < MaxDisconnectDraws

NextDisconnect ==
    \/ Building /\ ClientConnect
    \/ Building /\ TechnicianConnect
    \/ \E client_id \in Drawn : NoDisconnect /\ HelpRequest(client_id)
    \/ \E client_id \in Drawn, tech_id \in Drawn :
          Building /\ ControlResponse(client_id, tech_id, TRUE)
    \/ DisconnectStep

SpecDisconnect == Init /\ [][NextDisconnect]_vars

(* ------------- the screenshot stream of the direct connection ------------ *)

\* What happens outside the direct connection: nothing.
BrokerIdle ==
    UNCHANGED <<clients, technicians, help_requests, active_sessions, uuid_draws,
                sent, last, pc, technician_apps, disconnecting, further>>

\* size.to_bytes(4, byteorder='big')
to_bytes(size) ==
    << (size \div 16777216) % 256, (size \div 65536) % 256,
       (size \div 256) % 256, size % 256 >>

\* int.from_bytes(size_bytes, byteorder='big')
RECURSIVE from_bytes(_)
from_bytes(bytes) ==
    IF bytes = <<>> THEN 0
    ELSE from_bytes(SubSeq(bytes, 1, Len(bytes) - 1)) * 256 + bytes[Len(bytes)]

\* The pickles send_screenshots can produce.
Payloads == UNION { [1..n -> 0..MaxByte] : n \in 1..MaxPayload }

\* The connection after connect_to_client, no frame sent: wire holds the bytes
\* written and not yet read, frames the payloads sent, received the payloads
\* _receive_screenshots has got, phase / need / data the call of _recv_all it
\* is in, split whether some recv returned less than was asked for.
FrameConnection ==
    [state |-> "frames", wire |-> <<>>, frames |-> <<>>, received |-> <<>>,
     phase |-> "size", need |-> 4, data |-> <<>>, running |-> TRUE,
     split |-> FALSE]

InitFrames ==
    /\ clients = <<>> /\ technicians = <<>> /\ help_requests = <<>>
    /\ active_sessions = <<>> /\ uuid_draws = 0 /\ sent = <<>>
    /\ last = [op |-> "init", id |-> None, arg |-> None]
    /\ pc = Idle /\ technician_apps = NoSession
    /\ disconnecting = NotDisconnecting
    /\ direct = FrameConnection
    /\ NothingFurther

\* send_screenshots, lines 874-885: the size, then the data.
SendFrame(data) ==
    /\ Len(direct.frames) < MaxFrames
    /\ direct' = [direct EXCEPT !.wire = @ \o to_bytes(Len(data)) \o data,
                                !.frames = Append(@, data)]
    /\ BrokerIdle

\* Variant of recv_all_done: _recv_all returning what its first recv returned.
recv_once_done(data, n) == Len(data) >= 1

\* _recv_all: the loop `while len(data) < n` is over.
recv_all_done(data, n) == Len(data) >= n

\* One recv of _recv_all returning k bytes, and what follows it when the loop
\* is over: the size read (lines 868-875; _recv_all(0) returns an empty
\* bytearray and the loop breaks), or the data (876-880).
Recv(k) ==
    /\ direct.running
    /\ k \in 1..Min({direct.need - Len(direct.data), Len(direct.wire)})
    /\ LET data == direct.data \o SubSeq(direct.wire, 1, k)
           read == [direct EXCEPT !.wire = SubSeq(@, k + 1, Len(@)),
                                  !.split = @ \/ k < direct.need - Len(direct.data)]
       IN direct' =
             IF ~recv_all_done(data, direct.need)
             THEN [read EXCEPT !.data = data]
             ELSE IF direct.phase = "size"
             THEN IF from_bytes(data) = 0
                  THEN [read EXCEPT !.data = <<>>, !.running = FALSE]
                  ELSE [read EXCEPT !.data = <<>>, !.phase = "data",
                                    !.need = from_bytes(data)]
             ELSE [read EXCEPT !.data = <<>>, !.phase = "size", !.need = 4,
                               !.received = Append(@, data)]
    /\ BrokerIdle

\* recv returns b'' or times out: _recv_all returns None and the loop breaks.
RecvNone ==
    /\ direct.running
    /\ direct' = [direct EXCEPT !.running = FALSE, !.data = <<>>]
    /\ BrokerIdle

NextFrames ==
    \/ \E data \in Payloads : SendFrame(data)
    \/ \E k \in 1..4 : Recv(k)
    \/ RecvNone

SpecFrames == InitFrames /\ [][NextFrames]_vars

(* -------------- the command stream of the direct connection -------------- *)

\* The command types process_command knows, and one it does not.
KnownCommands ==
    {"mouse_move", "mouse_click", "key_press", "key_combination", "write", "ping"}

CommandTypes == {"mouse_click", "key_press", "ping", "scroll"}

\* pickle.dumps(command): the protocol header, the value, the STOP opcode.
dumps(command) == <<"PROTO", command, "STOP">>

\* pickle.loads(data): the first pickle of data, whatever follows its STOP is
\* not looked at; data that is no whole pickle raises.
loads(data) ==
    IF Len(data) >= 3 /\ data[1] = "PROTO" /\ data[3] = "STOP"
    THEN [raised |-> FALSE, command |-> data[2]]
    ELSE [raised |-> TRUE, command |-> None]

\* The connection after accept_control_connections has started the loops:
\* wire holds the bytes written by the technician and not yet read, commands
\* what send_command has written, executed what process_command has been
\* given, injected the input given to pyautogui, running whether
\* handle_technician is in its loop, failed whether pickle.loads has raised,
\* technician_socket whether the client holds the socket.
CommandConnection ==
    [state |-> "commands", wire |-> <<>>, commands |-> <<>>, executed |-> <<>>,
     injected |-> <<>>, running |-> TRUE, failed |-> FALSE,
     technician_socket |-> TRUE]

InitCommands ==
    /\ clients = <<>> /\ technicians = <<>> /\ help_requests = <<>>
    /\ active_sessions = <<>> /\ uuid_draws = 0 /\ sent = <<>>
    /\ last = [op |-> "init", id |-> None, arg |-> None]
    /\ pc = Idle /\ technician_apps = NoSession
    /\ disconnecting = NotDisconnecting
    /\ direct = CommandConnection
    /\ NothingFurther

\* send_command: sendall(pickle.dumps(command)), nothing before or after it.
send_command(command) ==
    /\ Len(direct.commands) < MaxCommands
    /\ direct' = [direct EXCEPT !.wire = @ \o dumps(command),
                                !.commands = Append(@, command)]
    /\ BrokerIdle

\* Variant of process_command: an unknown type raises out of the loop.
process_command_strict(connection, command) ==
    IF command \in KnownCommands
    THEN [connection EXCEPT !.executed = Append(@, command),
                            !.injected = IF command = "ping" THEN @
                                         ELSE Append(@, command)]
    ELSE [connection EXCEPT !.executed = Append(@, command),
                            !.running = FALSE, !.technician_socket = FALSE]

\* process_command: the known types are given to pyautogui (ping to nothing),
\* no branch matches any other type; an exception is logged inside.
process_command(connection, command) ==
    [connection EXCEPT !.executed = Append(@, command),
                       !.injected = IF command \in KnownCommands \ {"ping"}
                                    THEN Append(@, command) ELSE @]

\* One turn of the loop of handle_technician: recv(BUFFER_SIZE) returns k
\* bytes, pickle.loads, process_command; an exception breaks the loop and the
\* finally clause calls disconnect_technician.
handle_technician(k) ==
    /\ direct.running
    /\ k \in 1..Min({MaxRecv, Len(direct.wire)})
    /\ LET data == SubSeq(direct.wire, 1, k)
           read == [direct EXCEPT !.wire = SubSeq(@, k + 1, Len(@))]
       IN direct' =
             IF loads(data).raised
             THEN [read EXCEPT !.running = FALSE, !.failed = TRUE,
                               !.technician_socket = FALSE]
             ELSE process_command(read, loads(data).command)
    /\ BrokerIdle

\* recv returns b'' or raises ConnectionError: the loop breaks.
handle_technician_closed ==
    /\ direct.running
    /\ direct' = [direct EXCEPT !.running = FALSE, !.technician_socket = FALSE]
    /\ BrokerIdle

NextCommands ==
    \/ \E command \in CommandTypes : send_command(command)
    \/ \E k \in 1..MaxRecv : handle_technician(k)
    \/ handle_technician_closed

SpecCommands == InitCommands /\ [][NextCommands]_vars

(* ---------------- the client's control server and its loops -------------- *)

\* The threads accept_control_connections starts for the connection it takes.
LoopKinds == {"handle_technician", "send_screenshots"}

LoopThreads == LoopKinds \X (1..MaxConnections)

\* The client after start_control_server: no technician socket. accepted
\* counts the connections accept() has returned (the sockets are numbered in
\* that order), open holds the sockets the client has not closed, rejected
\* those closed at line 759, peer_closed those the technician has closed,
\* loops the statement each thread is at, using the socket its recv or
\* sendall was called on.
ControlServer ==
    [state |-> "control", technician_socket |-> None, accepted |-> 0,
     open |-> {}, rejected |-> {}, peer_closed |-> {},
     loops |-> [t \in LoopThreads |-> "none"],
     using |-> [t \in LoopThreads |-> None]]

InitControl ==
    /\ clients = <<>> /\ technicians = <<>> /\ help_requests = <<>>
    /\ active_sessions = <<>> /\ uuid_draws = 0 /\ sent = <<>>
    /\ last = [op |-> "init", id |-> None, arg |-> None]
    /\ pc = Idle /\ technician_apps = NoSession
    /\ disconnecting = NotDisconnecting
    /\ direct = ControlServer
    /\ NothingFurther

\* The sockets something still refers to: the attribute, and the calls in
\* progress. A socket nothing refers to is closed when it is collected.
Referenced(connection) ==
    {connection.technician_socket}
       \cup { connection.using[t] : t \in { u \in LoopThreads : connection.loops[u] = "io" } }

\* One turn of the loop of accept_control_connections: accept() returns (the
\* socket of the turn before is no longer referred to by tech_socket); with a
\* technician socket set the new socket is closed, otherwise it becomes the
\* technician socket and the two threads are started.
accept_control_connection(connection) ==
    LET tech_socket == connection.accepted + 1
    IN IF connection.technician_socket # None
       THEN [connection EXCEPT
               !.accepted = tech_socket,
               !.open = @ \cap Referenced(connection),
               !.rejected = @ \cup {tech_socket}]
       ELSE [connection EXCEPT
               !.accepted = tech_socket,
               !.technician_socket = tech_socket,
               !.open = (@ \cap Referenced(connection)) \cup {tech_socket},
               !.loops = [t \in LoopThreads |->
                             IF t[2] = tech_socket THEN "head" ELSE @[t]]]

AcceptControlConnection ==
    /\ direct.accepted < MaxConnections
    /\ direct' = accept_control_connection(direct)
    /\ BrokerIdle

\* The technician closes its end of a connection the client took
\* (disconnect_from_client).
PeerClose(tech_socket) ==
    /\ tech_socket \in 1..direct.accepted
    /\ tech_socket \notin direct.rejected \cup direct.peer_closed
    /\ direct' = [direct EXCEPT !.peer_closed = @ \cup {tech_socket}]
    /\ BrokerIdle

\* `while self.control_running and self.technician_socket`, and the call of
\* recv (handle_technician) or sendall (send_screenshots) on the socket.
LoopHead(t) ==
    /\ direct.loops[t] = "head"
    /\ direct' = IF direct.technician_socket # None
                 THEN [direct EXCEPT !.loops[t] = "io",
                                     !.using[t] = direct.technician_socket]
                 ELSE [direct EXCEPT !.loops[t] = "L920"]
    /\ BrokerIdle

\* The call returns or raises. handle_technician: data processed and the next
\* turn, or b'' / an exception and break. send_screenshots: sent and the next
\* turn; ConnectionError breaks; another exception counts a failure, and
\* breaks at the fifth.
LoopIo(t, break) ==
    /\ direct.loops[t] = "io"
    /\ LET tech_socket == direct.using[t]
           is_open == tech_socket \in direct.open
           peer_open == tech_socket \notin direct.peer_closed
           may_continue ==
              IF t[1] = "handle_technician" THEN is_open /\ peer_open
              ELSE peer_open \/ ~is_open
       IN /\ break \/ may_continue
          /\ direct' = [direct EXCEPT
                          !.loops[t] = IF break THEN "L920" ELSE "head",
                          !.using[t] = None]
    /\ BrokerIdle

\* disconnect_technician in the finally clause of the thread, statement by
\* statement: the test (920), close (922; on None the AttributeError is
\* swallowed), the assignment of None (925).
DisconnectTechnician(t) ==
    /\ direct.loops[t] \in {"L920", "L922", "L925"}
    /\ direct' =
          CASE direct.loops[t] = "L920" ->
                 [direct EXCEPT !.loops[t] = IF direct.technician_socket # None
                                             THEN "L922" ELSE "ended"]
            [] direct.loops[t] = "L922" ->
                 [direct EXCEPT !.loops[t] = "L925",
                                !.open = @ \ {direct.technician_socket}]
            [] direct.loops[t] = "L925" ->
                 [direct EXCEPT !.loops[t] = "ended",
                                !.technician_socket = None]
    /\ BrokerIdle

\* A statement of the thread t.
LoopStep(t) ==
    \/ LoopHead(t)
    \/ \E break \in BOOLEAN : LoopIo(t, break)
    \/ DisconnectTechnician(t)

NextControl ==
    \/ AcceptControlConnection
    \/ \E tech_socket \in 1..MaxConnections : PeerClose(tech_socket)
    \/ \E t \in LoopThreads : LoopHead(t)
    \/ \E t \in LoopThreads, break \in BOOLEAN : LoopIo(t, break)
    \/ \E t \in LoopThreads : DisconnectTechnician(t)

\* Every started thread is scheduled again and again; connections and the
\* technicians' closes come when they come.
SpecControl ==
    /\ InitControl /\ [][NextControl]_vars
    /\ \A t \in LoopThreads : WF_vars(LoopStep(t))

(* ------------------ input events of the technician program -------------- *)

\* The technician program after __init__: not connected, keyboard_focus
\* False. callbacks are the root.after(0, ...) calls not yet run, commands what
\* send_command has written for input events.
InputIdle ==
    [state |-> "input", control_connected |-> FALSE, keyboard_focus |-> FALSE,
     callbacks |-> <<>>, commands |-> <<>>]

InitInput ==
    /\ clients = <<>> /\ technicians = <<>> /\ help_requests = <<>>
    /\ active_sessions = <<>> /\ uuid_draws = 0 /\ sent = <<>>
    /\ last = [op |-> "init", id |-> None, arg |-> None]
    /\ pc = Idle /\ technician_apps = NoSession
    /\ disconnecting = NotDisconnecting
    /\ direct = InputIdle
    /\ NothingFurther

\* connect_to_client succeeding, on its thread: control_connected is set and
\* _update_ui_connected is left to the event loop.
ConnectedToClient ==
    /\ ~direct.control_connected
    /\ Len(direct.callbacks) < MaxCallbacks
    /\ direct' = [direct EXCEPT !.control_connected = TRUE,
                                !.callbacks = Append(@, "_update_ui_connected")]
    /\ BrokerIdle

\* disconnect_from_client: control_connected is cleared and
\* _update_ui_disconnected is left to the event loop.
DisconnectedFromClient ==
    /\ direct.control_connected
    /\ Len(direct.callbacks) < MaxCallbacks
    /\ direct' = [direct EXCEPT !.control_connected = FALSE,
                                !.callbacks = Append(@, "_update_ui_disconnected")]
    /\ BrokerIdle

\* The event loop runs the next callback: _update_ui_connected sets
\* keyboard_focus, _update_ui_disconnected clears it.
RunCallback ==
    /\ direct.callbacks # <<>>
    /\ direct' = [direct EXCEPT
                    !.callbacks = Tail(@),
                    !.keyboard_focus = (Head(direct.callbacks) = "_update_ui_connected")]
    /\ BrokerIdle

\* on_canvas_focus_in
on_canvas_focus_in ==
    /\ direct' = [direct EXCEPT !.keyboard_focus = @ \/ direct.control_connected]
    /\ BrokerIdle

\* Whether on_canvas_click, on_canvas_right_click and on_canvas_motion go on
\* to send_command: control_connected, and for a motion the 50 ms throttle.
forward_mouse(connection, throttled) ==
    connection.control_connected /\ ~throttled

\* Whether on_key_press goes on to send_command.
forward_key(connection) ==
    connection.keyboard_focus /\ connection.control_connected

\* An input event of the kind, its handler and send_command (which tests
\* control_connected again).
InputEvent(kind, throttled) ==
    /\ Len(direct.commands) < MaxCommands
    /\ throttled => kind = "mouse_move"
    /\ LET forward == IF kind = "key_press" THEN forward_key(direct)
                      ELSE forward_mouse(direct, throttled)
       IN direct' = IF forward /\ direct.control_connected
                    THEN [direct EXCEPT !.commands = Append(@, kind)]
                    ELSE direct
    /\ BrokerIdle

NextInput ==
    \/ ConnectedToClient
    \/ DisconnectedFromClient
    \/ RunCallback
    \/ on_canvas_focus_in
    \/ \E kind \in {"mouse_move", "mouse_click", "key_press"}, throttled \in BOOLEAN :
          InputEvent(kind, throttled)

SpecInput == InitInput /\ [][NextInput]_vars

(* --------------------------- the certificates --------------------------- *)

\* What happens outside the certificate storage: nothing.
OnlyStorage ==
    UNCHANGED <<clients, technicians, help_requests, active_sessions, uuid_draws,
                sent, last, pc, technician_apps, disconnecting, direct, racing,
                forwarded, programs>>

\* What a file can hold: nothing (the file does not exist), a private key, a
\* certificate for a public key signed with a private key, or bytes that are
\* no PEM document.
Absent == [kind |-> "absent"]

Garbage == [kind |-> "garbage"]

PrivateKey(key) == [kind |-> "key", key |-> key]

Certificate(key, signed_by) == [kind |-> "cert", key |-> key, signed_by |-> signed_by]

\* os.path.exists
exists(file) == file.kind # "absent"

\* load_ca_certificate: both files read and parsed, or an exception.
load_ca_certificate(files) ==
    IF files.ca_cert_file.kind = "cert" /\ files.ca_key_file.kind = "key"
    THEN [raised |-> FALSE, ca_cert |-> files.ca_cert_file, ca_key |-> files.ca_key_file]
    ELSE [raised |-> TRUE, ca_cert |-> Absent, ca_key |-> Absent]

\* generate_ca_certificate with the fresh key pair `key`: a self-signed
\* certificate, written with its key.
generate_ca_certificate(files, key) ==
    [files EXCEPT !.ca_cert_file = Certificate(key, key),
                  !.ca_key_file = PrivateKey(key)]

\* generate_server_certificate(ca_cert, ca_key) with the fresh key pair `key`:
\* a certificate signed with ca_key, written with its key.
generate_server_certificate(files, ca_cert, ca_key, key) ==
    [files EXCEPT !.cert_file = Certificate(key, ca_key.key),
                  !.key_file = PrivateKey(key)]

\* Variant of setup_certificates: the server certificate is generated on
\* every call.
setup_certificates_anew(files, keys) ==
    LET generate_ca == ~exists(files.ca_cert_file) \/ ~exists(files.ca_key_file)
        loaded == load_ca_certificate(files)
        with_ca == IF generate_ca THEN generate_ca_certificate(files, keys + 1) ELSE files
        keys_ca == IF generate_ca THEN keys + 1 ELSE keys
        ca == load_ca_certificate(with_ca)
    IN IF ~generate_ca /\ loaded.raised
       THEN [files |-> files, keys |-> keys, raised |-> TRUE]
       ELSE [files |-> generate_server_certificate(with_ca, ca.ca_cert, ca.ca_key, keys_ca + 1),
             keys |-> keys_ca + 1, raised |-> FALSE]

\* setup_certificates; keys is the number of key pairs generated so far.
setup_certificates(files, keys) ==
    LET generate_ca == ~exists(files.ca_cert_file) \/ ~exists(files.ca_key_file)
        loaded == load_ca_certificate(files)
        with_ca == IF generate_ca THEN generate_ca_certificate(files, keys + 1) ELSE files
        keys_ca == IF generate_ca THEN keys + 1 ELSE keys
        ca == load_ca_certificate(with_ca)
    IN IF ~generate_ca /\ loaded.raised
       THEN [files |-> files, keys |-> keys, raised |-> TRUE]
       ELSE IF ~exists(with_ca.cert_file) \/ ~exists(with_ca.key_file)
       THEN [files |-> generate_server_certificate(with_ca, ca.ca_cert, ca.ca_key, keys_ca + 1),
             keys |-> keys_ca + 1, raised |-> FALSE]
       ELSE [files |-> with_ca, keys |-> keys_ca, raised |-> FALSE]

\* context.load_cert_chain(cert_file, key_file)
load_cert_chain(files) ==
    IF ~exists(files.cert_file) \/ ~exists(files.key_file) THEN "FileNotFoundError"
    ELSE IF /\ files.cert_file.kind = "cert" /\ files.key_file.kind = "key"
            /\ files.cert_file.key = files.key_file.key
    THEN "loaded"
    ELSE "SSLError"

\* create_server_context: FileNotFoundError leads to setup_certificates and a
\* second load_cert_chain; every other exception leaves the function.
create_server_context(files, keys) ==
    IF load_cert_chain(files) = "FileNotFoundError"
    THEN LET setup == setup_certificates(files, keys)
         IN [setup EXCEPT !.raised = @ \/ load_cert_chain(setup.files) # "loaded"]
    ELSE [files |-> files, keys |-> keys, raised |-> load_cert_chain(files) # "loaded"]

\* What the four files can hold when a program starts: each is missing, is
\* not a PEM document, or is what an earlier setup_certificates wrote (CA key
\* pair 1, server key pair 2).
StoredFiles ==
    [ca_cert_file : {Absent, Garbage, Certificate(1, 1)},
     ca_key_file  : {Absent, Garbage, PrivateKey(1)},
     cert_file    : {Absent, Garbage, Certificate(2, 1)},
     key_file     : {Absent, Garbage, PrivateKey(2)}]

InitCertificates ==
    /\ clients = <<>> /\ technicians = <<>> /\ help_requests = <<>>
    /\ active_sessions = <<>> /\ uuid_draws = 0 /\ sent = <<>>
    /\ last = [op |-> "init", id |-> None, arg |-> None]
    /\ pc = Idle /\ technician_apps = NoSession
    /\ disconnecting = NotDisconnecting
    /\ direct = NoConnection /\ racing = NotRacing
    /\ forwarded = NoneForwarded /\ programs = NoPrograms
    /\ \E files \in StoredFiles :
          storage = [state |-> "certificates", files |-> files, keys |-> 2,
                     op |-> "none", raised |-> FALSE]

\* A program calls initialize_ssl (setup_certificates).
SetupCertificates ==
    /\ LET setup == setup_certificates(storage.files, storage.keys)
       IN storage' = [storage EXCEPT !.files = setup.files, !.keys = setup.keys,
                                     !.op = "setup_certificates",
                                     !.raised = setup.raised]
    /\ OnlyStorage

\* A program makes its server socket (create_server_context).
CreateServerContext ==
    /\ LET context == create_server_context(storage.files, storage.keys)
       IN storage' = [storage EXCEPT !.files = context.files, !.keys = context.keys,
                                     !.op = "create_server_context",
                                     !.raised = context.raised]
    /\ OnlyStorage

NextCertificates == SetupCertificates \/ CreateServerContext

SpecCertificates == InitCertificates /\ [][NextCertificates]_vars

(* ------------- setup_certificates in two programs at a time ------------- *)

\* The programs that share the working directory (the broker and a client,
\* say), each with its own SSLManager.
Instances == {1, 2}

\* A program about to call setup_certificates: nothing in memory yet.
AtSetup == [at |-> "L177", ca_cert |-> Absent, ca_key |-> Absent,
            server_cert |-> Absent, server_key |-> Absent]

NoFiles == [ca_cert_file |-> Absent, ca_key_file |-> Absent,
            cert_file |-> Absent, key_file |-> Absent]

\* No certificate material, both programs about to call setup_certificates.
InitCertificateRace ==
    /\ clients = <<>> /\ technicians = <<>> /\ help_requests = <<>>
    /\ active_sessions = <<>> /\ uuid_draws = 0 /\ sent = <<>>
    /\ last = [op |-> "init", id |-> None, arg |-> None]
    /\ pc = Idle /\ technician_apps = NoSession
    /\ disconnecting = NotDisconnecting
    /\ direct = NoConnection /\ racing = NotRacing
    /\ forwarded = NoneForwarded /\ programs = NoPrograms
    /\ storage = [state |-> "race", files |-> NoFiles, keys |-> 0,
                  instances |-> [i \in Instances |-> AtSetup]]

\* The next statement of setup_certificates in program i: the test of line
\* 177, generate_ca_certificate (key pair and certificate made in memory, then
\* the writes of lines 79 and 82) or load_ca_certificate (the reads of lines
\* 166 and 169), the test of line 183, generate_server_certificate (made in
\* memory with the CA key the program holds, then the writes of lines 148 and
\* 151).
SetupStatement(i) ==
    LET self == storage.instances[i]
        files == storage.files
        key == storage.keys + 1
    IN /\ self.at \notin {"done", "raised"}
       /\ storage' =
            CASE self.at = "L177" ->
                   IF ~exists(files.ca_cert_file) \/ ~exists(files.ca_key_file)
                   THEN [storage EXCEPT !.keys = key,
                                        !.instances[i].ca_cert = Certificate(key, key),
                                        !.instances[i].ca_key = PrivateKey(key),
                                        !.instances[i].at = "L79"]
                   ELSE [storage EXCEPT !.instances[i].at = "L166"]
              [] self.at = "L79" ->
                   [storage EXCEPT !.files.ca_cert_file = self.ca_cert,
                                   !.instances[i].at = "L82"]
              [] self.at = "L82" ->
                   [storage EXCEPT !.files.ca_key_file = self.ca_key,
                                   !.instances[i].at = "L183"]
              [] self.at = "L166" ->
                   IF files.ca_cert_file.kind = "cert"
                   THEN [storage EXCEPT !.instances[i].ca_cert = files.ca_cert_file,
                                        !.instances[i].at = "L169"]
                   ELSE [storage EXCEPT !.instances[i].at = "raised"]
              [] self.at = "L169" ->
                   IF files.ca_key_file.kind = "key"
                   THEN [storage EXCEPT !.instances[i].ca_key = files.ca_key_file,
                                        !.instances[i].at = "L183"]
                   ELSE [storage EXCEPT !.instances[i].at = "raised"]
              [] self.at = "L183" ->
                   IF ~exists(files.cert_file) \/ ~exists(files.key_file)
                   THEN [storage EXCEPT
                           !.keys = key,
                           !.instances[i].server_cert = Certificate(key, self.ca_key.key),
                           !.instances[i].server_key = PrivateKey(key),
                           !.instances[i].at = "L148"]
                   ELSE [storage EXCEPT !.instances[i].at = "done"]
              [] self.at = "L148" ->
                   [storage EXCEPT !.files.cert_file = self.server_cert,
                                   !.instances[i].at = "L151"]
              [] self.at = "L151" ->
                   [storage EXCEPT !.files.key_file = self.server_key,
                                   !.instances[i].at = "done"]
       /\ OnlyStorage

NextCertificateRace == \E i \in Instances : SetupStatement(i)

SpecCertificateRace == InitCertificateRace /\ [][NextCertificateRace]_vars

(* ---- handle_control_response against disconnects, statement by statement ---- *)

\* No thread is inside handle_control_response, disconnect_technician or
\* disconnect_client.
NoRace ==
    /\ racing.approver.at = "idle" /\ racing.technician.at = "idle"
    /\ NoDisconnect

\* The registries are built before the approval, from at most MaxApproveDraws
\* identifiers.
BeforeApproval == racing = NotRacing /\ NoDisconnect /\ uuid_draws < MaxApproveDraws

\* handle_client_messages of client_id receives control_response{tech_id,
\* approved: true}: its thread enters handle_control_response.
ApproveCall(client_id, tech_id) ==
    /\ racing = NotRacing /\ NoDisconnect
    /\ client_id \in DOMAIN clients
    /\ racing' = [racing EXCEPT
                    !.approver = [at |-> "L802", client_id |-> client_id,
                                  tech_id |-> tech_id, session_id |-> None,
                                  outcome |-> "running"]]
    /\ RegistriesUnchanged /\ sent' = <<>>
    /\ UNCHANGED <<uuid_draws, disconnecting>>

\* handle_control_response goes on at statement `at`.
ApproverGoto(at) ==
    /\ racing' = [racing EXCEPT !.approver.at = at]
    /\ UNCHANGED disconnecting

\* A KeyError leaves handle_control_response; handle_client_messages breaks
\* its loop and its finally clause calls disconnect_client.
ApproverRaise ==
    /\ racing' = [racing EXCEPT !.approver.at = "idle", !.approver.outcome = "raised"]
    /\ disconnecting' =
          [disconnecting EXCEPT
             !["handler"] = [at |-> "L893", client_id |-> racing.approver.client_id,
                             session_id |-> None, outcome |-> "running"]]

\* One statement of handle_control_response with approved true.
ApproveStatement ==
    LET at == racing.approver.at
        client_id == racing.approver.client_id
        tech_id == racing.approver.tech_id
        session_id == racing.approver.session_id
    IN /\ at # "idle"
       /\ CASE at = "L802" ->   \* if tech_id not in ... or client_id not in ...: return
                 /\ IF tech_id \notin DOMAIN technicians \/ client_id \notin DOMAIN clients
                    THEN /\ racing' = [racing EXCEPT !.approver.at = "idle",
                                                     !.approver.outcome = "returned"]
                         /\ UNCHANGED disconnecting
                    ELSE ApproverGoto("L805")
                 /\ RegistriesUnchanged /\ sent' = <<>> /\ UNCHANGED uuid_draws
            [] at = "L805" ->   \* client_info = ...; tech_info = ...
                 /\ IF tech_id \notin DOMAIN technicians \/ client_id \notin DOMAIN clients
                    THEN ApproverRaise ELSE ApproverGoto("L811")
                 /\ RegistriesUnchanged /\ sent' = <<>> /\ UNCHANGED uuid_draws
            [] at = "L811" ->   \* session_id = uuid4; self.active_sessions[session_id] = ...
                 /\ active_sessions' =
                       Append(active_sessions,
                              [session_id |-> uuid4, client_id |-> client_id,
                               tech_id |-> tech_id])
                 /\ uuid_draws' = uuid_draws + 1
                 /\ racing' = [racing EXCEPT !.approver.at = "L818",
                                             !.approver.session_id = uuid4]
                 /\ UNCHANGED <<clients, technicians, help_requests, disconnecting>>
                 /\ sent' = <<>>
            [] at = "L818" ->   \* self.clients[client_id]['session_id'] = session_id
                 /\ IF client_id \in DOMAIN clients
                    THEN /\ clients' = [clients EXCEPT ![client_id].session_id = session_id]
                         /\ ApproverGoto("L819")
                    ELSE /\ UNCHANGED clients
                         /\ ApproverRaise
                 /\ UNCHANGED <<technicians, help_requests, active_sessions, uuid_draws>>
                 /\ sent' = <<>>
            [] at = "L819" ->   \* self.clients[client_id]['help_requested'] = False
                 /\ IF client_id \in DOMAIN clients
                    THEN /\ clients' = [clients EXCEPT ![client_id].help_requested = FALSE]
                         /\ ApproverGoto("L820")
                    ELSE /\ UNCHANGED clients
                         /\ ApproverRaise
                 /\ UNCHANGED <<technicians, help_requests, active_sessions, uuid_draws>>
                 /\ sent' = <<>>
            [] at = "L820" ->   \* self.technicians[tech_id]['assigned_client'] = client_id
                 /\ IF tech_id \in DOMAIN technicians
                    THEN /\ technicians' =
                               [technicians EXCEPT ![tech_id].assigned_client = client_id]
                         /\ ApproverGoto("L823")
                    ELSE /\ UNCHANGED technicians
                         /\ ApproverRaise
                 /\ UNCHANGED <<clients, help_requests, active_sessions, uuid_draws>>
                 /\ sent' = <<>>
            [] at = "L823" ->   \* if client_id in self.help_requests
                 /\ IF client_id \in DOMAIN help_requests
                    THEN ApproverGoto("L824") ELSE ApproverGoto("L843")
                 /\ RegistriesUnchanged /\ sent' = <<>> /\ UNCHANGED uuid_draws
            [] at = "L824" ->   \* del self.help_requests[client_id]
                 /\ IF client_id \in DOMAIN help_requests
                    THEN /\ help_requests' = Del(help_requests, client_id)
                         /\ ApproverGoto("L843")
                    ELSE /\ UNCHANGED help_requests
                         /\ ApproverRaise
                 /\ UNCHANGED <<clients, technicians, active_sessions, uuid_draws>>
                 /\ sent' = <<>>
            [] at = "L843" ->   \* the response to tech_info['socket'], the broadcast
                 /\ Commit(control_response_notify(
                              Send(State, "technician", tech_id,
                                   [type |-> "control_approved", client_id |-> client_id,
                                    session_id |-> session_id],
                                   tech_id \in DOMAIN technicians),
                              client_id, tech_id, TRUE, {}))
                 /\ racing' = [racing EXCEPT !.approver.at = "idle",
                                             !.approver.outcome = "approved"]
                 /\ UNCHANGED <<uuid_draws, disconnecting>>

\* handle_technician_messages of tech_id reaches its finally clause, or a
\* heartbeat send to it fails, while the approval is running: the thread
\* calls disconnect_technician.
TechnicianDisconnectCall(tech_id) ==
    /\ racing.approver.at # "idle"
    /\ racing.technician.at = "idle" /\ racing.technician.outcome = "none"
    /\ tech_id \in DOMAIN technicians
    /\ racing' = [racing EXCEPT
                    !.technician = [at |-> "L932", tech_id |-> tech_id,
                                    assigned_client |-> None, session_id |-> None,
                                    outcome |-> "running"]]
    /\ RegistriesUnchanged /\ sent' = <<>>
    /\ UNCHANGED <<uuid_draws, disconnecting>>

\* The session disconnect_technician's loop stops at: the first of
\* list(self.active_sessions.items()) with the tech_id.
FirstSessionOf(sessions, tech_id) ==
    LET found == SelectSeq(sessions, LAMBDA s : s.tech_id = tech_id)
    IN IF found = <<>> THEN None ELSE found[1].session_id

\* One statement of disconnect_technician.
TechnicianDisconnectStatement ==
    LET at == racing.technician.at
        tech_id == racing.technician.tech_id
        assigned_client == racing.technician.assigned_client
        session_id == racing.technician.session_id
        goto(next) == racing' = [racing EXCEPT !.technician.at = next]
        finish(outcome) == racing' = [racing EXCEPT !.technician.at = "idle",
                                                    !.technician.outcome = outcome]
    IN /\ at # "idle"
       /\ CASE at = "L932" ->   \* if tech_id not in self.technicians: return
                 /\ IF tech_id \in DOMAIN technicians
                    THEN goto("L938") ELSE finish("returned")
                 /\ RegistriesUnchanged
            [] at = "L938" ->   \* assigned_client; the test of 939; the loop to its match
                 /\ LET assigned == technicians[tech_id].assigned_client
                        found == FirstSessionOf(active_sessions, tech_id)
                    IN racing' =
                          [racing EXCEPT
                             !.technician.assigned_client = assigned,
                             !.technician.session_id = found,
                             !.technician.at =
                                 IF /\ assigned # None /\ assigned \in DOMAIN clients
                                    /\ found # None
                                 THEN "L942" ELSE "L954"]
                 /\ RegistriesUnchanged
            [] at = "L942" ->   \* del self.active_sessions[session_id]
                 /\ IF HasSession(active_sessions, session_id)
                    THEN /\ active_sessions' = DelSession(active_sessions, session_id)
                         /\ goto("L943")
                    ELSE /\ UNCHANGED active_sessions
                         /\ finish("failed")
                 /\ UNCHANGED <<clients, technicians, help_requests>>
            [] at = "L943" ->   \* self.clients[assigned_client]['session_id'] = None
                 /\ IF assigned_client \in DOMAIN clients
                    THEN /\ clients' = [clients EXCEPT ![assigned_client].session_id = None]
                         /\ goto("L954")
                    ELSE /\ UNCHANGED clients
                         /\ finish("failed")
                 /\ UNCHANGED <<technicians, help_requests, active_sessions>>
            [] at = "L954" ->   \* del self.technicians[tech_id]
                 /\ technicians' = Del(technicians, tech_id)
                 /\ finish("removed")
                 /\ UNCHANGED <<clients, help_requests, active_sessions>>
       /\ sent' = <<>>
       /\ UNCHANGED <<uuid_draws, disconnecting>>

\* A statement of the approving thread or of the thread disconnecting the
\* technician.
ApproveStep ==
    /\ \/ \E client_id \in Drawn, tech_id \in Drawn : ApproveCall(client_id, tech_id)
       \/ ApproveStatement
       \/ \E tech_id \in Drawn : TechnicianDisconnectCall(tech_id)
       \/ TechnicianDisconnectStatement
    /\ last' = [op |-> "control_response", id |-> None, arg |-> None]
    /\ UNCHANGED <<pc, technician_apps, direct, storage, forwarded, programs>>

\* A statement of disconnect_client: on the heartbeat thread, called while
\* the approval is running, or on the handler thread after a KeyError.
ApproveDisconnectStep ==
    /\ \/ /\ racing.approver.at # "idle"
          /\ disconnecting["heartbeat"].outcome = "none"
          /\ \E client_id \in Drawn : DisconnectCall("heartbeat", client_id)
       \/ \E thread \in DisconnectThreads : DisconnectStatement(thread)
    /\ last' = [op |-> "disconnect_client", id |-> None, arg |-> None]
    /\ UNCHANGED <<uuid_draws, pc, technician_apps, direct, further>>

NextApprove ==
    \/ BeforeApproval /\ ClientConnect
    \/ BeforeApproval /\ TechnicianConnect
    \/ \E client_id \in Drawn : BeforeApproval /\ HelpRequest(client_id)
    \/ ApproveStep
    \/ ApproveDisconnectStep

SpecApprove == Init /\ [][NextApprove]_vars

(* ------------------- the retries of send_screenshots -------------------- *)

\* send_screenshots, line 850
max_failures == 5

\* How one turn of the loop can end: the frame is sent, or ConnectionError,
\* socket.timeout or another exception is raised.
TurnOutcomes == {"sent", "ConnectionError", "timeout", "Exception"}

\* Variant of screenshot_turn: a frame that is sent leaves the count as it is.
screenshot_turn_no_reset(consecutive_failures, outcome) ==
    CASE outcome = "sent" ->
           [consecutive_failures |-> consecutive_failures, break |-> FALSE]
      [] outcome = "ConnectionError" ->
           [consecutive_failures |-> consecutive_failures, break |-> TRUE]
      [] OTHER ->
           [consecutive_failures |-> consecutive_failures + 1,
            break |-> consecutive_failures + 1 >= max_failures]

\* One turn of the loop of send_screenshots (lines 854-911): the new count,
\* and whether the loop breaks.
screenshot_turn(consecutive_failures, outcome) ==
    CASE outcome = "sent" ->
           [consecutive_failures |-> 0, break |-> FALSE]
      [] outcome = "ConnectionError" ->
           [consecutive_failures |-> consecutive_failures, break |-> TRUE]
      [] OTHER ->
           [consecutive_failures |-> consecutive_failures + 1,
            break |-> consecutive_failures + 1 >= max_failures]

\* send_screenshots entering its loop: outcomes are the turns so far,
\* technician_socket whether the client still holds the socket.
Producing ==
    [state |-> "producer", consecutive_failures |-> 0, outcomes |-> <<>>,
     running |-> TRUE, technician_socket |-> TRUE]

InitProducer ==
    /\ clients = <<>> /\ technicians = <<>> /\ help_requests = <<>>
    /\ active_sessions = <<>> /\ uuid_draws = 0 /\ sent = <<>>
    /\ last = [op |-> "init", id |-> None, arg |-> None]
    /\ pc = Idle /\ technician_apps = NoSession
    /\ disconnecting = NotDisconnecting
    /\ direct = Producing
    /\ NothingFurther

\* A turn of the loop with the outcome; a break runs disconnect_technician
\* (finally).
SendScreenshot(outcome) ==
    /\ direct.running
    /\ Len(direct.outcomes) < MaxTurns
    /\ LET turn == screenshot_turn(direct.consecutive_failures, outcome)
       IN direct' = [direct EXCEPT
                       !.consecutive_failures = turn.consecutive_failures,
                       !.outcomes = Append(@, outcome),
                       !.running = ~turn.break,
                       !.technician_socket = ~turn.break]
    /\ BrokerIdle

NextProducer == \E outcome \in TurnOutcomes : SendScreenshot(outcome)

SpecProducer == InitProducer /\ [][NextProducer]_vars


(* ------------- control requests and the responses to them -------------- *)

\* The control requests that are forwarded and not answered, all together.
RECURSIVE Pending(_, _)
Pending(f, todo) ==
    IF todo = {} THEN 0
    ELSE LET request == CHOOSE r \in todo : TRUE
         IN f[request] + Pending(f, todo \ {request})

\* handle_technician_messages receives request_control: handle_control_request
\* runs, and the control_request it has sent to the client waits there for an
\* answer. The broker itself keeps no record of it.
RequestForwarded(tech_id, client_id) ==
    /\ tech_id \in DOMAIN technicians
    /\ Pending(forwarded, DOMAIN forwarded) < MaxForwarded
    /\ \E downC \in SUBSET ({client_id} \cap DOMAIN clients) :
          LET st == handle_control_request(State, tech_id, client_id, downC)
          IN /\ Commit(st)
             /\ forwarded' =
                   IF st.sent # <<>> /\ st.sent[1].ok
                   THEN [forwarded EXCEPT ![<<tech_id, client_id>>] = @ + 1]
                   ELSE forwarded
    /\ Ran("request_control", tech_id, client_id)
    /\ UNCHANGED <<uuid_draws, pc, technician_apps, disconnecting, direct, storage,
                   racing, programs>>

\* handle_client_messages receives control_response: handle_control_response
\* runs, whatever technician the message names; a forwarded request of that
\* technician is answered by it.
ResponseAnswered(client_id, tech_id, approved) ==
    /\ client_id \in DOMAIN clients
    /\ LET known == tech_id \in DOMAIN technicians
           draws == approved /\ known
       IN /\ draws => uuid_draws < MaxUuid
          /\ \E downT \in (IF draws THEN SUBSET DOMAIN technicians
                           ELSE SUBSET ({tech_id} \cap DOMAIN technicians)) :
                Commit(handle_control_response(State, client_id, tech_id, approved,
                                               uuid4, downT))
          /\ uuid_draws' = IF draws THEN uuid_draws + 1 ELSE uuid_draws
    /\ forwarded' = [forwarded EXCEPT ![<<tech_id, client_id>>] =
                                         IF @ > 0 THEN @ - 1 ELSE @]
    /\ Ran("control_response", client_id, tech_id)
    /\ UNCHANGED <<pc, technician_apps, disconnecting, direct, storage, racing, programs>>

NextRequests ==
    \/ ClientConnect
    \/ TechnicianConnect
    \/ \E tech_id \in Drawn, client_id \in Drawn : RequestForwarded(tech_id, client_id)
    \/ \E client_id \in Drawn, tech_id \in Drawn, approved \in BOOLEAN :
          ResponseAnswered(client_id, tech_id, approved)

SpecRequests == Init /\ [][NextRequests]_vars


(* ------- the client and technician programs on their mediator sockets ---- *)

\* The steps of this section leave everything else alone.
SignalingOnly ==
    UNCHANGED <<pc, technician_apps, disconnecting, direct, storage, racing, forwarded>>

\* The messages among `sends` that reached the socket of the peer (role, id),
\* in the order they were sent.
RECURSIVE Arrived(_, _, _)
Arrived(sends, role, id) ==
    IF sends = <<>> THEN <<>>
    ELSE LET send == Head(sends)
             rest == Arrived(Tail(sends), role, id)
         IN IF send.role = role /\ send.to = id /\ send.ok
            THEN <<send.msg>> \o rest
            ELSE rest

\* socket.send on the broker's side: what was sent is in flight to the
\* programs, behind what was sent before. A program that has closed its
\* socket receives nothing.
Queued(pr, sends) ==
    [client |->
        [id \in Uuid |->
            [pr.client[id] EXCEPT !.inbox = @ \o Arrived(sends, "client", id)]],
     technician |->
        [id \in Uuid |->
            IF pr.technician[id].closed THEN pr.technician[id]
            ELSE [pr.technician[id] EXCEPT
                    !.inbox = @ \o Arrived(sends, "technician", id)]]]

\* No socket holds more than MaxInFlight messages the receiver has not read.
Fits(pr) ==
    \A id \in Uuid :
       /\ Len(pr.client[id].inbox) <= MaxInFlight
       /\ Len(pr.technician[id].inbox) <= MaxInFlight

\* The registered technicians whose program has closed its socket: a send to
\* one of them may still succeed or may raise.
Gone == { id \in DOMAIN technicians : programs.technician[id].closed }

\* The programs of a role that have connected to the broker so far.
Started(role) == { id \in Uuid : programs[role][id] # NoPrograms[role][id] }

\* connect_to_mediator of the client program up to its send, and the broker's
\* handle_client_connection: the welcome is in flight.
ClientProgramConnect ==
    /\ uuid_draws < MaxSignalingDraws
    /\ Cardinality(Started("client")) < MaxSignalingClients
    /\ \E identity \in Identities(uuid4) :
          LET st == handle_client_connection(State, uuid4, identity, TRUE, {})
          IN /\ Commit(st)
             /\ programs' = Queued(programs, st.sent)
             /\ Fits(programs')
    /\ uuid_draws' = uuid_draws + 1
    /\ Ran("client_connect", uuid4, None)
    /\ SignalingOnly

\* connect_to_mediator of the technician program up to its send, and the
\* broker's handle_technician_connection.
TechnicianProgramConnect ==
    /\ uuid_draws < MaxSignalingDraws
    /\ Cardinality(Started("technician")) < MaxSignalingTechnicians
    /\ \E identity \in Identities(uuid4) :
          LET st == handle_technician_connection(State, uuid4, identity, TRUE)
          IN /\ Commit(st)
             /\ programs' = Queued(programs, st.sent)
             /\ Fits(programs')
    /\ uuid_draws' = uuid_draws + 1
    /\ Ran("technician_connect", uuid4, None)
    /\ SignalingOnly

\* request_help of the client program
request_help(app) ==
    IF ~app.mediator_connected \/ app.help_requested THEN app
    ELSE [app EXCEPT !.outbox = Append(@, [type |-> "help_request"]),
                     !.help_requested = TRUE]

\* cancel_help of the client program
cancel_help(app) ==
    IF ~app.mediator_connected \/ ~app.help_requested THEN app
    ELSE [app EXCEPT !.outbox = Append(@, [type |-> "cancel_help"]),
                     !.help_requested = FALSE,
                     !.help_button = "normal",
                     !.cancel_help_button = "disabled"]

\* handle_control_request of the client program; result is the answer to the
\* askyesno prompt.
client_handle_control_request(app, message, result) ==
    [app EXCEPT !.outbox = Append(@, [type |-> "control_response",
                                      tech_id |-> message.tech_id,
                                      approved |-> result]),
                !.help_requested = IF result THEN FALSE ELSE @,
                !.help_button = IF result THEN "disabled" ELSE @,
                !.cancel_help_button = IF result THEN "disabled" ELSE @]

\* The client program takes the next message off its mediator socket: the
\* welcome in connect_to_mediator, the others in process_mediator_message.
\* The root.after(0, ...) calls that set the buttons are run at once.
client_process_mediator_message(app, message, result) ==
    CASE message.type = "welcome" ->
            [app EXCEPT !.mediator_connected = TRUE, !.help_button = "normal"]
      [] message.type = "help_confirmed" ->
            [app EXCEPT !.help_button = "disabled", !.cancel_help_button = "normal"]
      [] message.type = "control_request" ->
            client_handle_control_request(app, message, result)
      [] OTHER -> app

\* The help button.
RequestHelp(client_id) ==
    /\ programs.client[client_id].help_button = "normal"
    /\ programs.client[client_id].mediator_connected
    /\ ~programs.client[client_id].help_requested
    /\ Len(programs.client[client_id].outbox) < MaxInFlight
    /\ programs' = [programs EXCEPT !.client[client_id] = request_help(@)]
    /\ sent' = <<>>
    /\ Ran("request_help", client_id, None)
    /\ UNCHANGED <<clients, technicians, help_requests, active_sessions, uuid_draws>>
    /\ SignalingOnly

\* The cancel button.
CancelHelpRequest(client_id) ==
    /\ programs.client[client_id].cancel_help_button = "normal"
    /\ programs.client[client_id].mediator_connected
    /\ programs.client[client_id].help_requested
    /\ Len(programs.client[client_id].outbox) < MaxInFlight
    /\ programs' = [programs EXCEPT !.client[client_id] = cancel_help(@)]
    /\ sent' = <<>>
    /\ Ran("cancel_help_request", client_id, None)
    /\ UNCHANGED <<clients, technicians, help_requests, active_sessions, uuid_draws>>
    /\ SignalingOnly

\* accept_control_connections of the client program takes a connection (its
\* control server accepts whoever connects): the help button is disabled.
accept_control(app) ==
    IF app.technician_socket THEN app
    ELSE [app EXCEPT !.technician_socket = TRUE, !.help_button = "disabled"]

\* disconnect_technician of the client program: the help button is enabled
\* again unless help is requested.
client_disconnect_technician(app) ==
    IF ~app.technician_socket THEN app
    ELSE [app EXCEPT !.technician_socket = FALSE,
                     !.help_button = IF app.mediator_connected /\ ~app.help_requested
                                     THEN "normal" ELSE @]

\* A control connection to the client program opens or ends.
ControlConnection(client_id) ==
    /\ programs.client[client_id].mediator_connected
    /\ programs' = [programs EXCEPT
                      !.client[client_id] =
                          IF @.technician_socket THEN client_disconnect_technician(@)
                          ELSE accept_control(@)]
    /\ sent' = <<>>
    /\ Ran("control_connection", client_id, None)
    /\ UNCHANGED <<clients, technicians, help_requests, active_sessions, uuid_draws>>
    /\ SignalingOnly

\* handle_mediator_messages of the client program, one message.
ClientReceive(client_id, result) ==
    /\ programs.client[client_id].inbox # <<>>
    /\ LET app == programs.client[client_id]
           message == Head(app.inbox)
       IN /\ message.type # "control_request" => result
          /\ message.type = "control_request" => Len(app.outbox) < MaxInFlight
          /\ programs' =
                [programs EXCEPT
                   !.client[client_id] =
                       client_process_mediator_message(
                           [app EXCEPT !.inbox = Tail(@)], message, result)]
          /\ Ran("client_receive", client_id, message.type)
    /\ sent' = <<>>
    /\ UNCHANGED <<clients, technicians, help_requests, active_sessions, uuid_draws>>
    /\ SignalingOnly

\* process_client_message of the broker for the next message of the client.
process_client_message(st, client_id, message, session_id, downT) ==
    CASE message.type = "help_request" -> handle_help_request(st, client_id, downT, {})
      [] message.type = "cancel_help" -> handle_cancel_help(st, client_id, downT)
      [] message.type = "control_response" ->
            handle_control_response(st, client_id, message.tech_id, message.approved,
                                    session_id, downT)
      [] OTHER -> st

\* handle_client_messages of the broker, one message.
BrokerFromClient(client_id) ==
    /\ client_id \in DOMAIN clients
    /\ programs.client[client_id].outbox # <<>>
    /\ LET message == Head(programs.client[client_id].outbox)
           draws == /\ message.type = "control_response"
                    /\ message.approved
                    /\ message.tech_id \in DOMAIN technicians
       IN /\ draws => uuid_draws < MaxSignalingDraws
          /\ \E downT \in SUBSET Gone :
                LET st == process_client_message(State, client_id, message, uuid4, downT)
                IN /\ Commit(st)
                   /\ programs' =
                         Queued([programs EXCEPT !.client[client_id].outbox = Tail(@)],
                                st.sent)
                   /\ Fits(programs')
          /\ uuid_draws' = IF draws THEN uuid_draws + 1 ELSE uuid_draws
          /\ Ran("broker_from_client", client_id, message.type)
    /\ SignalingOnly

\* update_help_requests of the technician program
RECURSIVE update_help_requests(_)
update_help_requests(requests_list) ==
    IF requests_list = <<>> THEN <<>>
    ELSE LET request == Head(requests_list)
         IN Put(update_help_requests(Tail(requests_list)), request.client_id,
                [name |-> request.name, ip |-> request.ip])

\* add_help_request of the technician program
add_help_request(app, request) ==
    [app EXCEPT !.help_requests =
                    Put(@, request.client_id, [name |-> request.name, ip |-> request.ip])]

\* remove_help_request of the technician program
remove_help_request(app, client_id) ==
    IF client_id \in DOMAIN app.help_requests
    THEN [app EXCEPT !.help_requests = Del(@, client_id)]
    ELSE app

\* The technician program takes the next message off its mediator socket: the
\* welcome in connect_to_mediator, the others in process_mediator_message
\* (control_approved and control_denied do not touch the list).
technician_process_mediator_message(app, message) ==
    CASE message.type = "welcome" ->
            [app EXCEPT !.mediator_connected = TRUE,
                        !.help_requests = update_help_requests(message.help_requests)]
      [] message.type = "new_help_request" -> add_help_request(app, message)
      [] message.type \in {"help_cancelled", "client_disconnected", "client_unavailable"} ->
            remove_help_request(app, message.client_id)
      [] OTHER -> app

\* handle_mediator_messages of the technician program, one message.
TechnicianReceive(tech_id) ==
    /\ ~programs.technician[tech_id].closed
    /\ programs.technician[tech_id].inbox # <<>>
    /\ LET app == programs.technician[tech_id]
           message == Head(app.inbox)
       IN /\ programs' =
                [programs EXCEPT
                   !.technician[tech_id] =
                       technician_process_mediator_message(
                           [app EXCEPT !.inbox = Tail(@)], message)]
          /\ Ran("technician_receive", tech_id, message.type)
    /\ sent' = <<>>
    /\ UNCHANGED <<clients, technicians, help_requests, active_sessions, uuid_draws>>
    /\ SignalingOnly

\* request_control of the technician program for a client of its list.
request_control(app, client_id) ==
    IF ~app.mediator_connected \/ client_id \notin DOMAIN app.help_requests THEN app
    ELSE [app EXCEPT !.outbox = Append(@, [type |-> "request_control",
                                           client_id |-> client_id])]

\* The request control button.
RequestControlOf(tech_id, client_id) ==
    /\ programs.technician[tech_id].mediator_connected
    /\ client_id \in DOMAIN programs.technician[tech_id].help_requests
    /\ Len(programs.technician[tech_id].outbox) < MaxInFlight
    /\ programs' = [programs EXCEPT !.technician[tech_id] = request_control(@, client_id)]
    /\ sent' = <<>>
    /\ Ran("request_control_of", tech_id, client_id)
    /\ UNCHANGED <<clients, technicians, help_requests, active_sessions, uuid_draws>>
    /\ SignalingOnly

\* handle_technician_messages of the broker, one message.
BrokerFromTechnician(tech_id) ==
    /\ tech_id \in DOMAIN technicians
    /\ programs.technician[tech_id].outbox # <<>>
    /\ LET message == Head(programs.technician[tech_id].outbox)
           st == IF message.type = "request_control"
                 THEN handle_control_request(State, tech_id, message.client_id, {})
                 ELSE State
       IN /\ Commit(st)
          /\ programs' =
                Queued([programs EXCEPT !.technician[tech_id].outbox = Tail(@)], st.sent)
          /\ Fits(programs')
          /\ Ran("broker_from_technician", tech_id, message.type)
    /\ UNCHANGED uuid_draws
    /\ SignalingOnly

\* disconnect_from_mediator of the technician program: the socket is closed
\* (what was in flight to it is lost, what it has sent still arrives) and the
\* list is cleared.
technician_disconnect_from_mediator(app) ==
    [app EXCEPT !.mediator_connected = FALSE, !.closed = TRUE,
                !.inbox = <<>>, !.help_requests = <<>>]

TechnicianProgramDisconnect(tech_id) ==
    /\ programs.technician[tech_id].mediator_connected
    /\ programs' = [programs EXCEPT
                      !.technician[tech_id] = technician_disconnect_from_mediator(@)]
    /\ sent' = <<>>
    /\ Ran("disconnect_from_mediator", tech_id, None)
    /\ UNCHANGED <<clients, technicians, help_requests, active_sessions, uuid_draws>>
    /\ SignalingOnly

\* handle_technician_messages of the broker reads the end of the stream and
\* runs disconnect_technician.
BrokerTechnicianExit(tech_id) ==
    /\ tech_id \in Gone
    /\ programs.technician[tech_id].outbox = <<>>
    /\ Commit(disconnect_technician(State, tech_id))
    /\ Ran("technician_exit", tech_id, None)
    /\ UNCHANGED <<uuid_draws, programs>>
    /\ SignalingOnly

NextSignaling ==
    \/ ClientProgramConnect
    \/ TechnicianProgramConnect
    \/ \E client_id \in Drawn : RequestHelp(client_id)
    \/ \E client_id \in Drawn : CancelHelpRequest(client_id)
    \/ \E client_id \in Drawn : ControlConnection(client_id)
    \/ \E client_id \in Drawn, result \in BOOLEAN : ClientReceive(client_id, result)
    \/ \E client_id \in Drawn : BrokerFromClient(client_id)
    \/ \E tech_id \in Drawn : TechnicianReceive(tech_id)
    \/ \E tech_id \in Drawn, client_id \in Drawn : RequestControlOf(tech_id, client_id)
    \/ \E tech_id \in Drawn : BrokerFromTechnician(tech_id)
    \/ \E tech_id \in Drawn : TechnicianProgramDisconnect(tech_id)
    \/ \E tech_id \in Drawn : BrokerTechnicianExit(tech_id)

SpecSignaling == Init /\ [][NextSignaling]_vars

(* ------------------------------- claims -------------------------------- *)

\* The sessions that reference a client / a technician.
SessionsOfClient(sessions, client_id) ==
    { i \in 1..Len(sessions) : sessions[i].client_id = client_id }

SessionsOfTechnician(sessions, tech_id) ==
    { i \in 1..Len(sessions) : sessions[i].tech_id = tech_id }

\* C1: for every registered client, help_requested and a non-null session_id
\* are never both set.
C1_HelpAndSessionExclusive ==
    \A c \in DOMAIN clients :
        ~(clients[c].help_requested /\ clients[c].session_id # None)

\* C2: no two active sessions share a client id, and no two share a
\* technician id.
C2_SessionsUnique ==
    \A i, j \in 1..Len(active_sessions) :
        i # j => /\ active_sessions[i].client_id # active_sessions[j].client_id
                 /\ active_sessions[i].tech_id # active_sessions[j].tech_id

\* C3: the client of every active session is registered and so is its
\* technician.
C3_SessionPeersRegistered ==
    \A i \in 1..Len(active_sessions) :
        /\ active_sessions[i].client_id \in DOMAIN clients
        /\ active_sessions[i].tech_id \in DOMAIN technicians

\* C4: whenever no handler is in the middle of its work, help_requests holds
\* an entry for c exactly if c is a registered client with help_requested set.
C4_HelpRequestIffFlag ==
    Quiescent =>
        DOMAIN help_requests = { c \in DOMAIN clients : clients[c].help_requested }

\* C5: a step that removes a client that has an active session also removes
\* that session and leaves no technician with assigned_client naming the
\* departed client.
C5_ClientDisconnectClearsTechnician ==
    [][\A c \in DOMAIN clients :
          (c \notin DOMAIN clients' /\ SessionsOfClient(active_sessions, c) # {})
          => /\ SessionsOfClient(active_sessions', c) = {}
             /\ \A t \in DOMAIN technicians' : technicians'[t].assigned_client # c]_vars

\* C6: when the broker has just forwarded technician B's control request to a
\* client that is in an active session with another technician, the next
\* broker step creates no active session of that client with B.
C6_NoSessionForLateRequest ==
    [][\A c \in DOMAIN clients, b \in DOMAIN technicians :
          ( /\ last.op = "request_control" /\ last.id = b
            /\ \E k \in 1..Len(sent) : /\ sent[k].msg.type = "control_request"
                                       /\ sent[k].to = c /\ sent[k].ok
            /\ \E i \in SessionsOfClient(active_sessions, c) :
                  active_sessions[i].tech_id # b )
          => ~ \E i \in SessionsOfClient(active_sessions', c) :
                  /\ active_sessions'[i].tech_id = b
                  /\ ~HasSession(active_sessions, active_sessions'[i].session_id)]_vars

\* The step is handle_control_response approving / denying a registered
\* technician: an approval draws a session id, a denial draws none.
ApprovalStep == last'.op = "control_response" /\ uuid_draws' # uuid_draws

DenialStep ==
    /\ last'.op = "control_response"
    /\ uuid_draws' = uuid_draws
    /\ last'.arg \in DOMAIN technicians

\* C7: an approval of technician t by client c leaves a new active session
\* (c, t) under a session id no earlier session used, the client with
\* help_requested false, without help request and with session_id that id,
\* the technician with assigned_client c, and sends t a control_approved
\* carrying the client's ip and name and that session id.
C7_ApprovalCreatesSession ==
    [][ApprovalStep =>
          LET c == last'.id
              t == last'.arg
          IN \E i \in 1..Len(active_sessions') :
                LET s == active_sessions'[i]
                IN /\ s.client_id = c /\ s.tech_id = t
                   /\ ~HasSession(active_sessions, s.session_id)
                   /\ c \in DOMAIN clients'
                   /\ ~clients'[c].help_requested
                   /\ c \notin DOMAIN help_requests'
                   /\ clients'[c].session_id = s.session_id
                   /\ t \in DOMAIN technicians'
                   /\ technicians'[t].assigned_client = c
                   /\ \E k \in 1..Len(sent') :
                         /\ sent'[k].role = "technician" /\ sent'[k].to = t
                         /\ sent'[k].msg.type = "control_approved"
                         /\ sent'[k].msg.client_id = c
                         /\ sent'[k].msg.client_ip = clients[c].ip
                         /\ sent'[k].msg.client_name = clients[c].name
                         /\ sent'[k].msg.session_id = s.session_id]_vars

\* The sends of client_unavailable to technician u in a list of sends.
Unavailable(sends, u) ==
    { k \in 1..Len(sends) : /\ sends[k].role = "technician" /\ sends[k].to = u
                            /\ sends[k].msg.type = "client_unavailable" }

\* C8: on an approval of technician t by client c the broker sends every
\* other connected technician exactly one client_unavailable for c (a
\* technician whose send fails is disconnected in the same step), and sends
\* t none.
C8_ApprovalNotifiesOthers ==
    [][ApprovalStep =>
          LET c == last'.id
              t == last'.arg
          IN /\ \A u \in (DOMAIN technicians) \ {t} :
                   /\ Cardinality(Unavailable(sent', u)) = 1
                   /\ \A k \in Unavailable(sent', u) :
                         /\ sent'[k].msg.client_id = c
                         /\ sent'[k].ok \/ u \notin DOMAIN technicians'
             /\ Unavailable(sent', t) = {}]_vars

\* An approval was just handled with two other technicians connected: one
\* received client_unavailable, the send to the other failed.
C8_Witness ==
    /\ last.op = "control_response"
    /\ \E k \in 1..Len(sent) : sent[k].msg.type = "control_approved"
    /\ \E u1, u2 \in Uuid :
          /\ u1 # last.arg /\ u2 # last.arg
          /\ \E k \in Unavailable(sent, u1) : sent[k].ok
          /\ \E k \in Unavailable(sent, u2) : ~sent[k].ok

\* C9: on a denial the broker's only send is control_denied for that client to
\* the technician the response names, and the four registries are unchanged.
C9_DenialOnlyNotifiesRequester ==
    [][DenialStep =>
          /\ Len(sent') = 1
          /\ sent'[1].role = "technician" /\ sent'[1].to = last'.arg
          /\ sent'[1].msg.type = "control_denied"
          /\ sent'[1].msg.client_id = last'.id
          /\ UNCHANGED <<clients, technicians, help_requests, active_sessions>>]_vars

\* A denial was just handled while the client had a pending help request and
\* a second technician was connected.
C9_Witness ==
    /\ last.op = "control_response"
    /\ Len(sent) = 1 /\ sent[1].msg.type = "control_denied"
    /\ last.id \in DOMAIN help_requests
    /\ Cardinality(DOMAIN technicians) >= 2

\* C10: end_session for an existing session, sent by a registered technician
\* or client, removes the session, sets to None the session_id of the
\* session's client and the assigned_client of the session's technician, and
\* changes no other client or technician.
C10_EndSessionClearsBoth ==
    [][ ( /\ last'.op \in {"end_session", "client_end_session"}
          /\ HasSession(active_sessions, last'.arg) )
        => LET s == SessionAt(active_sessions, last'.arg)
           IN /\ ~HasSession(active_sessions', s.session_id)
              /\ clients' = IF s.client_id \in DOMAIN clients
                            THEN [clients EXCEPT ![s.client_id].session_id = None]
                            ELSE clients
              /\ technicians' = IF s.tech_id \in DOMAIN technicians
                                THEN [technicians EXCEPT
                                        ![s.tech_id].assigned_client = None]
                                ELSE technicians]_vars

\* C11: end_session naming a session id that is not in active_sessions (never
\* a session, or a session already removed) sends nothing and leaves the
\* clients, technicians, help-request and session registries unchanged.
C11_EndSessionUnknownIsNoOp ==
    [][ ( /\ last'.op \in {"end_session", "client_end_session"}
          /\ ~HasSession(active_sessions, last'.arg) )
        => /\ sent' = <<>>
           /\ UNCHANGED <<clients, technicians, help_requests, active_sessions>>]_vars

\* A technician that is assigned to a client, while a session exists, has just
\* sent end_session with an id that names no session (it is its own id).
C11_Witness ==
    /\ last.op = "end_session"
    /\ last.arg = last.id
    /\ last.id \in DOMAIN technicians
    /\ technicians[last.id].assigned_client # None
    /\ active_sessions # <<>>

\* C12: an end_session sent to the broker by the client of an active session
\* removes that session, sets the client's session_id to None and sets the
\* assigned_client of the session's technician to None.
C12_ClientEndsSession ==
    [][ ( /\ last'.op = "client_end_session"
          /\ HasSession(active_sessions, last'.arg)
          /\ SessionAt(active_sessions, last'.arg).client_id = last'.id )
        => LET s == SessionAt(active_sessions, last'.arg)
           IN /\ ~HasSession(active_sessions', s.session_id)
              /\ s.client_id \in DOMAIN clients'
              /\ clients'[s.client_id].session_id = None
              /\ s.tech_id \in DOMAIN technicians'
                    => technicians'[s.tech_id].assigned_client = None]_vars

\* The control connection made for session_id has just been torn down, or
\* could not be opened.
TornDown(session_id) ==
    /\ last.op \in {"connect_failed", "disconnect_from_client"}
    /\ last.arg = session_id

\* The session is gone from the broker, or one of its mediator connections is.
Resolved(session_id) ==
    \/ ~HasSession(active_sessions, session_id)
    \/ LET s == SessionAt(active_sessions, session_id)
       IN s.client_id \notin DOMAIN clients \/ s.tech_id \notin DOMAIN technicians

\* C13: whenever the control connection of an approved session is torn down or
\* fails to open, the session is eventually removed from the broker's
\* active_sessions, as long as both mediator connections stay up.
C13_TeardownEndsSession ==
    \A session_id \in Uuid : TornDown(session_id) ~> Resolved(session_id)

\* C14: a step that removes technician t from the registry leaves no active
\* session with tech_id t, and no registered client whose session_id is the
\* id of one of t's removed sessions.
C14_TechnicianDisconnectEndsSessions ==
    [][\A t \in DOMAIN technicians :
          t \notin DOMAIN technicians'
          => /\ SessionsOfTechnician(active_sessions', t) = {}
             /\ \A i \in SessionsOfTechnician(active_sessions, t) :
                   \A c \in DOMAIN clients' :
                      clients'[c].session_id # active_sessions[i].session_id]_vars

\* The sends of `type` about client_id to technician u in a list of sends.
Notified(sends, u, type, client_id) ==
    { k \in 1..Len(sends) : /\ sends[k].role = "technician" /\ sends[k].to = u
                            /\ sends[k].msg.type = type
                            /\ sends[k].msg.client_id = client_id }

C16_BroadcastFailureIsolated ==
    [][last'.op = "help_request" =>
          LET c == last'.id
          IN /\ \A u \in DOMAIN technicians :
                   /\ Notified(sent', u, "new_help_request", c) # {}
                   /\ \A k \in Notified(sent', u, "new_help_request", c) :
                         IF sent'[k].ok
                         THEN u \in DOMAIN technicians'
                         ELSE /\ u \notin DOMAIN technicians'
                              /\ SessionsOfTechnician(active_sessions', u) = {}
             /\ c \in DOMAIN clients'
             /\ clients'[c].help_requested
             /\ \E k \in 1..Len(sent') :
                   /\ sent'[k].role = "client" /\ sent'[k].to = c
                   /\ sent'[k].msg.type = "help_confirmed"]_vars

\* The heartbeat send of the step to id failed.
HeartbeatFailed(sends, role, id) ==
    \E k \in 1..Len(sends) :
        /\ sends[k].role = role /\ sends[k].to = id
        /\ sends[k].msg.type = "heartbeat" /\ ~sends[k].ok

\* C17: a failed heartbeat send removes the technician from the registry
\* together with every active session of it, and the client from the registry
\* together with its help request and every active session of it; and no
\* message other than a welcome is ever sent to a technician that is not in
\* the registry.
C17_HeartbeatFailureCleansUp ==
    [][ /\ ( /\ last'.op = "heartbeat_technician"
             /\ HeartbeatFailed(sent', "technician", last'.id) )
           => /\ last'.id \notin DOMAIN technicians'
              /\ SessionsOfTechnician(active_sessions', last'.id) = {}
        /\ ( /\ last'.op = "heartbeat_client"
             /\ HeartbeatFailed(sent', "client", last'.id) )
           => /\ last'.id \notin DOMAIN clients'
              /\ last'.id \notin DOMAIN help_requests'
              /\ SessionsOfClient(active_sessions', last'.id) = {}
        /\ \A k \in 1..Len(sent') :
              (sent'[k].role = "technician" /\ sent'[k].msg.type # "welcome")
              => sent'[k].to \in DOMAIN technicians ]_vars

C20_RegisteredIdIsFresh ==
    [][last'.op \in {"client_connect", "technician_connect"}
         => last'.id \notin (DOMAIN clients) \cup (DOMAIN technicians)]_vars

\* The clients with a stored help request and no active session.
Unclaimed ==
    { c \in DOMAIN clients :
         c \in DOMAIN help_requests /\ SessionsOfClient(active_sessions, c) = {} }

\* C21: the welcome sent to a registering technician lists exactly the clients
\* that have a pending help request and no active session at that moment,
\* each of them once.
C21_WelcomeListsUnclaimed ==
    [][last'.op = "technician_connect" =>
          \E k \in 1..Len(sent') :
             /\ sent'[k].role = "technician" /\ sent'[k].to = last'.id
             /\ sent'[k].msg.type = "welcome"
             /\ LET l == sent'[k].msg.help_requests
                IN /\ { l[i].client_id : i \in 1..Len(l) } = Unclaimed
                   /\ Len(l) = Cardinality(Unclaimed)]_vars

C24_DisconnectExactlyOnce ==
    /\ \A thread \in DisconnectThreads : disconnecting[thread].outcome # "failed"
    /\ LET h == disconnecting["handler"]
           b == disconnecting["heartbeat"]
       IN ( /\ h.client_id # None /\ h.client_id = b.client_id
            /\ h.at = "idle" /\ b.at = "idle" )
          => Cardinality({ thread \in DisconnectThreads :
                              disconnecting[thread].outcome = "cleaned" }) = 1

\* C25: the payloads _receive_screenshots has got are, in order and byte for
\* byte, the payloads send_screenshots sent, however recv cuts the stream; and
\* once every byte written has been read, all of them have been received.
C25_FramesRoundTrip ==
    direct.state = "frames" =>
       /\ Len(direct.received) <= Len(direct.frames)
       /\ direct.received = SubSeq(direct.frames, 1, Len(direct.received))
       /\ ( direct.running /\ direct.wire = <<>> /\ direct.data = <<>> )
             => direct.received = direct.frames

\* Two different frames have been received although some recv returned less
\* than was asked for.
C25_Witness ==
    /\ direct.state = "frames"
    /\ direct.split
    /\ Len(direct.received) = MaxFrames
    /\ direct.received[1] # direct.received[2]
    /\ direct.received = direct.frames

\* C26: the commands the client has executed are, in order, the commands the
\* technician has written, pickle.loads never fails on what a recv returned,
\* and once every byte written has been read every command has been executed.
C26_CommandsParseable ==
    direct.state = "commands" =>
       /\ ~direct.failed
       /\ Len(direct.executed) <= Len(direct.commands)
       /\ direct.executed = SubSeq(direct.commands, 1, Len(direct.executed))
       /\ ( direct.running /\ direct.wire = <<>> )
             => direct.executed = direct.commands

\* C27: when the client is given a command whose type process_command does
\* not know, nothing is injected, handle_technician stays in its loop and the
\* technician socket stays open.
C27_UnknownCommandIgnored ==
    [][ ( /\ direct.state = "commands"
          /\ Len(direct'.executed) = Len(direct.executed) + 1
          /\ direct'.executed[Len(direct'.executed)] \notin KnownCommands )
        => ( /\ direct'.injected = direct.injected
             /\ direct'.running
             /\ direct'.technician_socket ) ]_vars

\* An unknown command has been processed and a known one after it.
C27_Witness ==
    /\ direct.state = "commands"
    /\ direct.executed = <<"scroll", "key_press">>
    /\ direct.injected = <<"key_press">>
    /\ direct.running /\ direct.technician_socket

\* C28: the client never has more than one open technician connection, and a
\* connection accepted while a technician socket is set is closed at once:
\* no thread is started for it, and the technician socket, the open sockets
\* and the threads are as before.
C28_SingleController ==
    [][ direct.state = "control" =>
          /\ Cardinality(direct'.open) <= 1
          /\ ( direct'.accepted = direct.accepted + 1 /\ direct.technician_socket # None )
                => /\ direct'.accepted \in direct'.rejected
                   /\ direct'.technician_socket = direct.technician_socket
                   /\ direct'.open = direct.open
                   /\ direct'.loops = direct.loops ]_vars

\* The loop of the thread is over: the thread is in, or past, the
\* disconnect_technician of its finally clause.
LoopOver(t) == direct.loops[t] \in {"L920", "L922", "L925", "ended"}

\* C29: once one of the two loops of a technician connection is over, the time
\* comes when both are over and the socket of the connection is closed and is
\* no longer the client's technician socket.
C29_EitherLoopEndsBoth ==
    \A t \in LoopThreads :
       LoopOver(t) ~> ( /\ \A kind \in LoopKinds : LoopOver(<<kind, t[2]>>)
                        /\ t[2] \notin direct.open
                        /\ direct.technician_socket # t[2] )

\* C30: the technician writes a command for an input event only when
\* keyboard_focus is set and the control connection is connected.
C30_InputOnlyWhileActive ==
    [][ ( direct.state = "input" /\ direct'.commands # direct.commands )
        => ( direct.keyboard_focus /\ direct.control_connected ) ]_vars

\* All four files exist.
AllStored(files) ==
    /\ exists(files.ca_cert_file) /\ exists(files.ca_key_file)
    /\ exists(files.cert_file) /\ exists(files.key_file)

\* C31: setup_certificates called with the four files present generates no
\* key and leaves the four files as they are, and called right after
\* setup_certificates it leaves the files as the first call left them.
C31_SetupIdempotent ==
    [][ storage'.op = "setup_certificates" =>
          /\ AllStored(storage.files)
                => storage'.files = storage.files /\ storage'.keys = storage.keys
          /\ storage.op = "setup_certificates"
                => storage'.files = storage.files ]_vars

\* setup_certificates has generated both pairs and found them when it was
\* called again.
C31_Witness ==
    /\ storage.state = "certificates"
    /\ storage.op = "setup_certificates" /\ ~storage.raised
    /\ storage.keys = 4
    /\ storage.files = setup_certificates(storage.files, storage.keys).files
    /\ storage.files.cert_file = Certificate(4, 3)

\* C32: create_server_context ends with the certificate chain loaded,
\* whatever the certificate file and the key file held.
C32_ServerContextSelfHealing ==
    ( storage.state = "certificates" /\ storage.op = "create_server_context" )
       => ~storage.raised

\* C36: after setup_certificates has completed, the server certificate on
\* disk (when the file holds a certificate) is signed with the CA key on disk.
C36_LeafSignedByStoredCa ==
    ( /\ storage.state = "certificates" /\ storage.op = "setup_certificates"
      /\ ~storage.raised
      /\ storage.files.cert_file.kind = "cert" )
       => /\ storage.files.ca_key_file.kind = "key"
          /\ storage.files.cert_file.signed_by = storage.files.ca_key_file.key

\* C33: when both programs have finished setup_certificates, started with no
\* material, the server certificate and key on disk are one pair, the CA
\* certificate and key on disk are one pair, and the server certificate is
\* signed with the CA key on disk.
C33_ConcurrentSetupConsistent ==
    ( /\ storage.state = "race"
      /\ \A i \in Instances : storage.instances[i].at \in {"done", "raised"} )
       => /\ AllStored(storage.files)
          /\ storage.files.cert_file.key = storage.files.key_file.key
          /\ storage.files.ca_cert_file.key = storage.files.ca_key_file.key
          /\ storage.files.cert_file.signed_by = storage.files.ca_key_file.key

\* C34: once the approving handle_control_response and the disconnects that
\* ran beside it are over, every session names a registered client whose
\* session_id is the session and a registered technician whose
\* assigned_client is the client.
C34_ApprovalAtomic ==
    ( NoRace /\ racing.approver.outcome # "none" )
       => \A i \in 1..Len(active_sessions) :
             LET session == active_sessions[i]
             IN /\ session.client_id \in DOMAIN clients
                /\ session.tech_id \in DOMAIN technicians
                /\ clients[session.client_id].session_id = session.session_id
                /\ technicians[session.tech_id].assigned_client = session.client_id

\* The number of failed turns since the last frame that was sent.
RECURSIVE Streak(_)
Streak(outcomes) ==
    IF outcomes = <<>> \/ outcomes[Len(outcomes)] = "sent" THEN 0
    ELSE 1 + Streak(SubSeq(outcomes, 1, Len(outcomes) - 1))

\* C35: send_screenshots has torn the connection down exactly when its last
\* turn raised ConnectionError or was the fifth failed turn in a row, and
\* after a frame that was sent its count of failures is zero.
C35_BoundedRetry ==
    ( direct.state = "producer" /\ direct.outcomes # <<>> )
       => LET outcome == direct.outcomes[Len(direct.outcomes)]
          IN /\ ~direct.running <=>
                   ( outcome = "ConnectionError"
                     \/ (outcome # "sent" /\ Streak(direct.outcomes) >= 5) )
             /\ direct.technician_socket = direct.running
             /\ outcome = "sent" => direct.consecutive_failures = 0

\* A frame was sent after a failed turn, and five failed turns later the
\* connection was torn down.
C35_Witness ==
    /\ direct.state = "producer"
    /\ Len(direct.outcomes) = MaxTurns
    /\ direct.outcomes[1] = "timeout" /\ direct.outcomes[2] = "sent"
    /\ direct.outcomes[3] = "Exception"
    /\ ~direct.running
    /\ direct.consecutive_failures = 5

\* C37: a session of client c and technician t is created only while a
\* control_request of t that the broker forwarded to c is unanswered; an
\* approval naming a technician who did not request control creates none.
C37_SessionNeedsRequest ==
    [][\A i \in 1..Len(active_sessions') :
          ~HasSession(active_sessions, active_sessions'[i].session_id)
          => forwarded[<<active_sessions'[i].tech_id, active_sessions'[i].client_id>>] > 0
      ]_vars

\* C38: the threads of an earlier technician connection never act on a later
\* one: a loop calls recv or sendall only on the socket its thread was started
\* for, and the disconnect_technician of a thread closes and clears no socket
\* but that one.
C38_OwnConnectionOnly ==
    [][\A t \in LoopThreads :
          /\ direct'.loops[t] = "io" => direct'.using[t] = t[2]
          /\ direct.loops[t] = "L922" /\ direct'.loops[t] = "L925"
             => direct.technician_socket \in {None, t[2]}
          /\ direct.loops[t] = "L925" /\ direct'.loops[t] = "ended"
             => direct.technician_socket \in {None, t[2]}
      ]_vars

\* No signaling message is in flight: every message sent has been handled by
\* its receiver, and the broker has seen every close.
NothingInFlight ==
    /\ \A id \in Uuid :
          /\ programs.client[id].inbox = <<>> /\ programs.client[id].outbox = <<>>
          /\ programs.technician[id].inbox = <<>> /\ programs.technician[id].outbox = <<>>
    /\ Gone = {}

\* C39: with no signaling message in flight, the help_requested flag of a
\* connected client program equals the help_requested the broker holds for
\* that client.
C39_ClientFlagAgrees ==
    NothingInFlight
    => \A client_id \in DOMAIN clients :
          programs.client[client_id].mediator_connected
          => programs.client[client_id].help_requested = clients[client_id].help_requested

\* C40: with no signaling message in flight, the help-request list of every
\* connected technician program holds exactly the clients the broker has with
\* help_requested set and no session, the technician whose control request
\* was approved included.
C40_TechnicianListAgrees ==
    NothingInFlight
    => \A tech_id \in DOMAIN technicians :
          programs.technician[tech_id].mediator_connected
          => DOMAIN programs.technician[tech_id].help_requests
             = { client_id \in DOMAIN clients :
                    clients[client_id].help_requested
                    /\ clients[client_id].session_id = None }

====
